---- MODULE Spec2Model ----
(***************************************************************************)
(* Verification model of the gojbig2 JBIG2 decoder: the bit stream, the    *)
(* 1-bit image, the MQ arithmetic decoder, the progressive generic-region  *)
(* decoder, the segment dispatcher of Context, the symbol-dictionary LRU   *)
(* cache and the Decoder facade.                                           *)
(*                                                                         *)
(* Go values are modelled by value.  A uint32 that may exceed 2^31-1 is a  *)
(* record [hi, lo] of two 16-bit halves; a nilable pointer is a sequence   *)
(* of length 0 (nil) or 1.                                                 *)
(***************************************************************************)
EXTENDS Integers, Sequences, FiniteSets, TLC

VARIABLES
    input,      \* the DecoderOptions this run works on
    created,    \* whether a decoder (or context) has been constructed
    ctx,        \* Decoder.ctx: nil before construction
    hist,       \* history: the API calls made so far and how each returned
    everErr,    \* history: some decode call on this decoder returned an error
    cache,      \* DocumentContext.symbolDictCache
    heap,       \* the symbol bitmaps allocated so far, by address
    stored,     \* history: the pixels last stored in the cache under each key
    touched,    \* history: the keys stored or hit, the latest first
    cstep       \* history: what the last decode call did with each symbol
                \* dictionary segment it parsed

vars == <<input, created, ctx, hist, everErr, cache, heap, stored, touched, cstep>>

----------------------------------------------------------------------------
(* Bounds of the model                                                     *)

MaxCalls == 3          \* decode calls made on one decoder
MaxPauseCalls == 4     \* ShouldPause calls of one decode call that may answer true
MaxSteps == 7          \* calls made on one document context

----------------------------------------------------------------------------
(* Generic helpers                                                         *)

Nil == <<>>
Some(x) == <<x>>
IsNil(p) == Len(p) = 0
Val(p) == p[1]

Min(a, b) == IF a < b THEN a ELSE b
Max(a, b) == IF a > b THEN a ELSE b

Pow2(n) == 2 ^ n

\* LET v == e IN F(v), with e evaluated once
Let(v, F(_)) == F(v)

\* bit n (0 = least significant) of the natural v
Bit(v, n) == (v \div Pow2(n)) % 2

RECURSIVE BitAnd(_, _)
BitAnd(a, b) ==
    IF a = 0 \/ b = 0 THEN 0
    ELSE (a % 2) * (b % 2) + 2 * BitAnd(a \div 2, b \div 2)

RECURSIVE BitOr(_, _)
BitOr(a, b) ==
    IF a = 0 THEN b
    ELSE IF b = 0 THEN a
    ELSE Max(a % 2, b % 2) + 2 * BitOr(a \div 2, b \div 2)

\* v << n and v >> n on naturals that stay below 2^31
Shl(v, n) == v * Pow2(n)
Shr(v, n) == v \div Pow2(n)

\* int8(b): the signed value of a byte
Int8(b) == IF b >= 128 THEN b - 256 ELSE b

(* uint32 values ----------------------------------------------------------*)

U32(hi, lo) == [hi |-> hi, lo |-> lo]
U32Of(n) == U32(n \div 65536, n % 65536)
U32Max == U32(65535, 65535)
U32Small(u) == u.hi < 32768
\* the value of u as an integer, for u < 2^31
U32Int(u) == u.hi * 65536 + u.lo
\* int32(u)
AsInt32(u) == IF u.hi >= 32768 THEN (u.hi - 65536) * 65536 + u.lo ELSE U32Int(u)
U32Gt(u, v) == u.hi > v.hi \/ (u.hi = v.hi /\ u.lo > v.lo)
U32Ge(u, v) == u = v \/ U32Gt(u, v)
\* u + v and u - v modulo 2^32
U32Add(u, v) ==
    LET lo == u.lo + v.lo
    IN  U32((u.hi + v.hi + lo \div 65536) % 65536, lo % 65536)
U32Sub(u, v) ==
    LET lo == u.lo - v.lo
    IN  U32((u.hi - v.hi + lo \div 65536) % 65536, lo % 65536)
\* u + d modulo 2^32 for a small signed integer d
U32AddInt(u, d) ==
    LET lo == u.lo + d
    IN  U32((u.hi + lo \div 65536) % 65536, lo % 65536)
\* (u << n) modulo 2^32, 0 <= n <= 15
U32Shl(u, n) ==
    LET lo == u.lo * Pow2(n)
        hi == u.hi * Pow2(n) + lo \div 65536
    IN  U32(hi % 65536, lo % 65536)

----------------------------------------------------------------------------
(* BitStream (segment.go).  A stream is the part [buf, byteIx, bitIx] of   *)
(* the record that owns it.                                                *)

InBounds(s) == s.byteIx < Len(s.buf)

BytesLeft(s) == IF s.byteIx >= Len(s.buf) THEN 0 ELSE Len(s.buf) - s.byteIx

Offset(s) == s.byteIx

\* SetOffset that keeps an offset past the end of the buffer
SetOffsetUnclamped(s, offset) == [s EXCEPT !.byteIx = offset]

SetOffset(s, offset) ==
    [s EXCEPT !.byteIx = IF offset > Len(s.buf) THEN Len(s.buf) ELSE offset]

\* SetOffset with a uint32 argument
SetOffsetU32(s, u) ==
    IF ~U32Small(u) \/ U32Int(u) > Len(s.buf)
    THEN [s EXCEPT !.byteIx = Len(s.buf)]
    ELSE [s EXCEPT !.byteIx = U32Int(u)]

\* AddOffset: the sum saturates at MaxUint32 and SetOffset clamps it
AddOffset(s, delta) == SetOffset(s, s.byteIx + delta)

AddOffsetU32(s, u) ==
    IF ~U32Small(u) \/ U32Int(u) > Len(s.buf)
    THEN [s EXCEPT !.byteIx = Len(s.buf)]
    ELSE AddOffset(s, U32Int(u))

AlignByte(s) ==
    IF s.bitIx # 0 THEN [AddOffset(s, 1) EXCEPT !.bitIx = 0] ELSE s

CurByte(s) == IF InBounds(s) THEN s.buf[s.byteIx + 1] ELSE 0

CurByteArith(s) == IF InBounds(s) THEN s.buf[s.byteIx + 1] ELSE 255

NextByteArith(s) ==
    IF s.byteIx + 1 < Len(s.buf) THEN s.buf[s.byteIx + 2] ELSE 255

IncByte(s) == AddOffset(s, 1)

\* The three byte-aligned reads.  Each answers [ok, v, s]; a failed read
\* leaves the stream where it was.
ReadByte(s) ==
    IF ~InBounds(s) THEN [ok |-> FALSE, v |-> 0, s |-> s]
    ELSE [ok |-> TRUE, v |-> s.buf[s.byteIx + 1],
          s |-> [s EXCEPT !.byteIx = @ + 1]]

ReadUint16(s) ==
    IF s.byteIx + 1 >= Len(s.buf) THEN [ok |-> FALSE, v |-> 0, s |-> s]
    ELSE [ok |-> TRUE,
          v |-> s.buf[s.byteIx + 1] * 256 + s.buf[s.byteIx + 2],
          s |-> [s EXCEPT !.byteIx = @ + 2]]

ReadUint32(s) ==
    IF s.byteIx + 3 >= Len(s.buf) THEN [ok |-> FALSE, v |-> U32(0, 0), s |-> s]
    ELSE [ok |-> TRUE,
          v |-> U32(s.buf[s.byteIx + 1] * 256 + s.buf[s.byteIx + 2],
                    s.buf[s.byteIx + 3] * 256 + s.buf[s.byteIx + 4]),
          s |-> [s EXCEPT !.byteIx = @ + 4]]

\* A run of reads of the given widths (1, 2 or 4 bytes), in order, stopping
\* at the first one that fails: [ok, vals, s].
RECURSIVE ReadFields(_, _, _)
ReadFields(s, widths, vals) ==
    IF widths = <<>> THEN [ok |-> TRUE, vals |-> vals, s |-> s]
    ELSE LET r == CASE Head(widths) = 1 -> ReadByte(s)
                    [] Head(widths) = 2 -> ReadUint16(s)
                    [] OTHER -> ReadUint32(s)
         IN  IF ~r.ok THEN [ok |-> FALSE, vals |-> vals, s |-> r.s]
             ELSE ReadFields(r.s, Tail(widths), Append(vals, r.v))

----------------------------------------------------------------------------
(* Image (part_005)                                                        *)

JBig2MaxImageSize == 65535
maxImagePixels == 2147483647 - 31
maxImageBytes == maxImagePixels \div 8

alignTo32(v) == ((v + 31) \div 32) * 32

\* the image NewImage answers when it allocates nothing
EmptyImage == [width |-> 0, height |-> 0, stride |-> 0, data |-> Nil, owned |-> FALSE]

HasData(img) == ~IsNil(img.data)
Data(img) == Val(img.data)

NewImage(w, h) ==
    IF w <= 0 \/ h <= 0 \/ w > maxImagePixels THEN EmptyImage
    ELSE IF h > maxImagePixels \div alignTo32(w) THEN EmptyImage
    ELSE [width |-> w, height |-> h, stride |-> alignTo32(w) \div 8,
          data |-> Some([i \in 1..((alignTo32(w) \div 8) * h) |-> 0]),
          owned |-> TRUE]

\* NewImageFromBuffer: [ok, img]
NewImageFromBuffer(w, h, stride, buf) ==
    IF \/ w < 0 \/ h < 0
       \/ stride < 0 \/ stride > maxImageBytes \/ stride % 4 # 0
       \/ stride * 8 < w
       \/ (h > 0 /\ h > maxImagePixels \div (stride * 8))
       \/ stride * h > Len(buf)
    THEN [ok |-> FALSE, img |-> EmptyImage]
    ELSE [ok |-> TRUE,
          img |-> [width |-> w, height |-> h, stride |-> stride,
                   data |-> Some(SubSeq(buf, 1, stride * h)), owned |-> FALSE]]

IsValidImageSize(w, h) ==
    w > 0 /\ w <= JBig2MaxImageSize /\ h > 0 /\ h <= JBig2MaxImageSize

\* readBit / GetPixel: the pixel at (x, y), 0 outside the image
GetPixel(img, x, y) ==
    IF ~HasData(img) \/ x < 0 \/ x >= img.width \/ y < 0 \/ y >= img.height
    THEN 0
    ELSE Bit(Data(img)[y * img.stride + (x \div 8) + 1], 7 - (x % 8))

\* the byte b with its bit for column x set to v
WithBit(b, x, v) ==
    LET n == 7 - (x % 8)
    IN  b - Bit(b, n) * Pow2(n) + (IF v # 0 THEN Pow2(n) ELSE 0)

\* writeBit / SetPixel: writes outside the image are ignored
SetPixel(img, x, y, v) ==
    IF ~HasData(img) \/ x < 0 \/ x >= img.width \/ y < 0 \/ y >= img.height
    THEN img
    ELSE LET i == y * img.stride + (x \div 8) + 1
         IN  [img EXCEPT !.data = Some([Data(img) EXCEPT ![i] = WithBit(@, x, v)])]

Fill(img, v) ==
    IF ~HasData(img) THEN img
    ELSE [img EXCEPT !.data =
            Some([i \in 1..Len(Data(img)) |-> IF v THEN 255 ELSE 0])]

\* CopyLine: a whole stride of bytes, zeroes when the source line is absent
CopyLine(img, dstY, srcY) ==
    IF ~HasData(img) \/ dstY < 0 \/ dstY >= img.height THEN img
    ELSE [img EXCEPT !.data = Some(
            [i \in 1..Len(Data(img)) |->
                IF i > dstY * img.stride /\ i <= (dstY + 1) * img.stride
                THEN IF srcY < 0 \/ srcY >= img.height THEN 0
                     ELSE Data(img)[i - dstY * img.stride + srcY * img.stride]
                ELSE Data(img)[i]])]

\* an applyCompose that replaces whatever the operator
applyComposeReplaceOnly(op, dst, src) == src

applyCompose(op, dst, src) ==
    CASE op = 0 -> Max(dst, src)
      [] op = 1 -> dst * src
      [] op = 2 -> (dst + src) % 2
      [] op = 3 -> 1 - ((dst + src) % 2)
      [] OTHER  -> src

Rect(l, t, r, b) == [Left |-> l, Top |-> t, Right |-> r, Bottom |-> b]
RectWidth(r) == r.Right - r.Left
RectHeight(r) == r.Bottom - r.Top

\* composeToInternal: [ok, dst].  The source rectangle rect of img is put on
\* dst at (x, y); an empty intersection answers false.
composeToInternal(img, dst, x, y, op, rect) ==
    IF ~HasData(img) \/ ~HasData(dst) THEN [ok |-> FALSE, dst |-> dst]
    ELSE IF x < -1048576 \/ x > 1048576 \/ y < -1048576 \/ y > 1048576
    THEN [ok |-> FALSE, dst |-> dst]
    ELSE IF rect.Left < 0 \/ rect.Top < 0 \/ rect.Right > img.width
            \/ rect.Bottom > img.height
    THEN [ok |-> FALSE, dst |-> dst]
    ELSE
      LET xs0 == IF x < 0 THEN -x ELSE 0
          xs1 == Min(RectWidth(rect), dst.width - x)
          ys0 == IF y < 0 THEN -y ELSE 0
          ys1 == Min(RectHeight(rect), dst.height - y)
          xd0 == Max(x, 0)
          yd0 == Max(y, 0)
          w == xs1 - xs0
          h == ys1 - ys0
          \* the new value of the destination pixel (dx, dy)
          px(dx, dy) ==
              IF dx >= xd0 /\ dx < xd0 + w /\ dy >= yd0 /\ dy < yd0 + h
              THEN applyCompose(op, GetPixel(dst, dx, dy),
                       GetPixel(img, rect.Left + xs0 + (dx - xd0),
                                     rect.Top + ys0 + (dy - yd0)))
              ELSE GetPixel(dst, dx, dy)
          byteAt(i) ==
              LET dy == (i - 1) \div dst.stride
                  bx == ((i - 1) % dst.stride) * 8
              IN  IF dy < yd0 \/ dy >= yd0 + h \/ bx + 7 < xd0 \/ bx >= xd0 + w
                  THEN Data(dst)[i]
                  ELSE LET old == Data(dst)[i]
                           nb(k) == IF bx + k >= xd0 /\ bx + k < xd0 + w
                                    THEN px(bx + k, dy) ELSE Bit(old, 7 - k)
                       IN  nb(0) * 128 + nb(1) * 64 + nb(2) * 32 + nb(3) * 16
                           + nb(4) * 8 + nb(5) * 4 + nb(6) * 2 + nb(7)
      IN  IF ys0 >= ys1 \/ xs0 >= xs1 THEN [ok |-> FALSE, dst |-> dst]
          ELSE [ok |-> TRUE,
                dst |-> [dst EXCEPT !.data =
                            Some([i \in 1..Len(Data(dst)) |-> byteAt(i)])]]

\* an Expand that leaves an external image alone
ExpandOwnedOnly(img, h, v) ==
    IF ~HasData(img) \/ ~img.owned THEN img
    ELSE IF h <= img.height \/ h > maxImageBytes \div img.stride THEN img
    ELSE [img EXCEPT
            !.data = Some([i \in 1..(img.stride * h) |->
                             IF i <= img.stride * img.height THEN Data(img)[i]
                             ELSE IF v THEN 255 ELSE 0]),
            !.height = h]

\* an Expand that allocates the taller buffer and forgets to copy the rows
\* it had
ExpandWithoutCopy(img, h, v) ==
    IF ~HasData(img) THEN img
    ELSE IF h <= img.height \/ h > maxImageBytes \div img.stride THEN img
    ELSE [img EXCEPT
            !.data = Some([i \in 1..(img.stride * h) |-> IF v THEN 255 ELSE 0]),
            !.owned = TRUE,
            !.height = h]

\* Expand: grow the height to h, the new rows filled with v
Expand(img, h, v) ==
    IF ~HasData(img) THEN img
    ELSE IF h <= img.height \/ h > maxImageBytes \div img.stride THEN img
    ELSE [img EXCEPT
            !.data = Some([i \in 1..(img.stride * h) |->
                             IF i <= img.stride * img.height THEN Data(img)[i]
                             ELSE IF v THEN 255 ELSE 0]),
            !.owned = TRUE,
            !.height = h]

----------------------------------------------------------------------------
(* Arithmetic decoder (part_007).  The decoder reads through the stream of *)
(* the record s that owns it, so every operation takes and answers both.  *)

defaultAValue == 32768

Qe(q, nmps, nlps, sw) == [qe |-> q, nmps |-> nmps, nlps |-> nlps, switchM |-> sw]

arithQeTable == <<
    Qe(22017, 1, 1, TRUE),   Qe(13313, 2, 6, FALSE),  Qe(6145, 3, 9, FALSE),
    Qe(2753, 4, 12, FALSE),  Qe(1313, 5, 29, FALSE),  Qe(545, 38, 33, FALSE),
    Qe(22017, 7, 6, TRUE),   Qe(21505, 8, 14, FALSE), Qe(18433, 9, 14, FALSE),
    Qe(14337, 10, 14, FALSE), Qe(12289, 11, 17, FALSE), Qe(9217, 12, 18, FALSE),
    Qe(7169, 13, 20, FALSE), Qe(5633, 29, 21, FALSE), Qe(22017, 15, 14, TRUE),
    Qe(21505, 16, 14, FALSE), Qe(20737, 17, 15, FALSE), Qe(18433, 18, 16, FALSE),
    Qe(14337, 19, 17, FALSE), Qe(13313, 20, 18, FALSE), Qe(12289, 21, 19, FALSE),
    Qe(10241, 22, 19, FALSE), Qe(9217, 23, 20, FALSE), Qe(8705, 24, 21, FALSE),
    Qe(7169, 25, 22, FALSE), Qe(6145, 26, 23, FALSE), Qe(5633, 27, 24, FALSE),
    Qe(5121, 28, 25, FALSE), Qe(4609, 29, 26, FALSE), Qe(4353, 30, 27, FALSE),
    Qe(2753, 31, 28, FALSE), Qe(2497, 32, 29, FALSE), Qe(2209, 33, 30, FALSE),
    Qe(1313, 34, 31, FALSE), Qe(1089, 35, 32, FALSE), Qe(673, 36, 33, FALSE),
    Qe(545, 37, 34, FALSE),  Qe(321, 38, 35, FALSE),  Qe(273, 39, 36, FALSE),
    Qe(133, 40, 37, FALSE),  Qe(73, 41, 38, FALSE),   Qe(37, 42, 39, FALSE),
    Qe(21, 43, 40, FALSE),   Qe(9, 44, 41, FALSE),    Qe(5, 45, 42, FALSE),
    Qe(1, 45, 43, FALSE),    Qe(22017, 46, 46, FALSE) >>

\* ArithContext{}: mps false, state 0
NewArithContext == [mps |-> 0, i |-> 0]

\* a context array of n default entries, kept sparsely
MakeContexts(n) == [size |-> n, at |-> [x \in {} |-> NewArithContext]]
CtxAt(cx, idx) == IF idx \in DOMAIN cx.at THEN cx.at[idx] ELSE NewArithContext
CtxPut(cx, idx, e) ==
    [cx EXCEPT !.at = [x \in (DOMAIN cx.at) \cup {idx} |->
                          IF x = idx THEN e ELSE cx.at[x]]]

\* decodeNLPS / decodeNMPS: [e, D]
decodeNLPS(e, qe) ==
    [e |-> [mps |-> IF qe.switchM THEN 1 - e.mps ELSE e.mps, i |-> qe.nlps],
     D |-> 1 - e.mps]
decodeNMPS(e, qe) == [e |-> [e EXCEPT !.i = qe.nmps], D |-> e.mps]

streamDataAvailable == 0
streamDecodingFinished == 1
streamLooping == 2

\* byteIn: [d, s]
byteIn(d, s) ==
    LET r == IF d.b = 255
             THEN LET b1 == NextByteArith(s)
                  IN  IF b1 > 143
                      THEN [d |-> [d EXCEPT
                                     !.ct = 8,
                                     !.state = IF @ = streamDataAvailable
                                               THEN streamDecodingFinished
                                               ELSE streamLooping,
                                     !.complete = @ \/ d.state = streamLooping],
                            s |-> s]
                      ELSE [d |-> [d EXCEPT
                                     !.b = b1,
                                     !.c = U32AddInt(d.c, 65024 - b1 * 512),
                                     !.ct = 7],
                            s |-> IncByte(s)]
             ELSE LET s1 == IncByte(s)
                      b1 == CurByteArith(s1)
                  IN  [d |-> [d EXCEPT
                                !.b = b1,
                                !.c = U32AddInt(d.c, 65280 - b1 * 256),
                                !.ct = 8],
                       s |-> s1]
    IN  IF ~InBounds(r.s) THEN [r EXCEPT !.d.complete = TRUE] ELSE r

\* readValueA: renormalise until bit 15 of a is set
RECURSIVE readValueA(_, _)
readValueA(d, s) ==
    Let(IF d.ct = 0 THEN byteIn(d, s) ELSE [d |-> d, s |-> s], LAMBDA r :
    Let([r.d EXCEPT !.a = @ * 2, !.c = U32Shl(@, 1), !.ct = @ - 1], LAMBDA d2 :
        IF BitAnd(d2.a, defaultAValue) # 0 THEN [d |-> d2, s |-> r.s]
        ELSE readValueA(d2, r.s)))

\* NewArithDecoder: [d, s]
NewArithDecoder(s) ==
    Let(byteIn([complete |-> FALSE, state |-> streamDataAvailable,
                b |-> CurByteArith(s), c |-> U32(255 - CurByteArith(s), 0),
                a |-> 0, ct |-> 0], s), LAMBDA r :
        [d |-> [r.d EXCEPT !.c = U32Shl(@, 7),
                           !.ct = IF @ >= 7 THEN @ - 7 ELSE 0,
                           !.a = defaultAValue],
         s |-> r.s])

\* the outcome of Decode once the decision x = [e, D] is taken and the
\* registers are renormalised to r = [d, s]
Decoded(x, r) == [ok |-> TRUE, D |-> x.D, d |-> r.d, s |-> r.s, e |-> x.e]

\* Decode past its checks, with the table entry qe and a1 = dec.a - qe.qe
DecodeQe(d, s, e, qe, a1) ==
    IF d.c.hi < a1
    THEN IF BitAnd(a1, defaultAValue) # 0
         THEN [ok |-> TRUE, D |-> e.mps, d |-> [d EXCEPT !.a = a1],
               s |-> s, e |-> e]
         ELSE Decoded(IF a1 < qe.qe THEN decodeNLPS(e, qe)
                      ELSE decodeNMPS(e, qe),
                      readValueA([d EXCEPT !.a = a1], s))
    ELSE Decoded(IF a1 < qe.qe THEN decodeNMPS(e, qe)
                 ELSE decodeNLPS(e, qe),
                 readValueA([d EXCEPT !.a = qe.qe,
                                      !.c = U32(d.c.hi - a1, d.c.lo)], s))

\* Decode: [ok, D, d, s, e] for the context entry e
\* Decode without its check of complete
DecodeWhenComplete(d, s, e) ==
    IF e.i >= Len(arithQeTable)
    THEN [ok |-> FALSE, D |-> 0, d |-> d, s |-> s, e |-> e]
    ELSE Let(arithQeTable[e.i + 1], LAMBDA qe :
             DecodeQe(d, s, e, qe, d.a - qe.qe))

Decode(d, s, e) ==
    IF d.complete \/ e.i >= Len(arithQeTable)
    THEN [ok |-> FALSE, D |-> 0, d |-> d, s |-> s, e |-> e]
    ELSE Let(arithQeTable[e.i + 1], LAMBDA qe :
             DecodeQe(d, s, e, qe, d.a - qe.qe))

----------------------------------------------------------------------------
(* Generic region decoding procedure, progressive arithmetic path          *)
(* (part_008).  A decode in progress is the record                         *)
(*   G = [d: decoder, s: stream, cx: contexts, img: image, ltp, err, panic] *)

CodecStatusReady == 0
CodecStatusToBeContinued == 1
CodecStatusFinished == 2
CodecStatusError == 3

optConstant1 == <<39717, 1941, 229>>
optConstant2 == <<6, 4, 1>>
optConstant3 == <<63488, 7680, 896>>
optConstant4 == <<0, 1, 3>>
optConstant5 == <<2032, 504, 124>>
optConstant6 == <<31735, 3835, 445>>
optConstant7 == <<2048, 512, 128>>
optConstant8 == <<16, 8, 4>>
optConstant9 == <<12, 9, 7>>
optConstant10 == <<7, 15, 7>>
optConstant11 == <<31, 31, 15>>
optConstant12 == <<15, 7, 3>>
tpgdContext3 == 405

NewGRDProc ==
    [MMR |-> FALSE, TPGDON |-> FALSE, UseSkip |-> FALSE, GBTemplate |-> 0,
     GBWidth |-> 0, GBHeight |-> 0, Skip |-> Nil,
     GBAt |-> <<0, 0, 0, 0, 0, 0, 0, 0>>,
     replaceRect |-> Rect(0, 0, 0, 0), progressiveStatus |-> CodecStatusReady,
     decodeType |-> 0, loopIndex |-> 0, ltp |-> 0]

useOptimisedTemplate(p, template) ==
    CASE template = 0 -> p.GBAt = <<3, -1, -3, -1, 2, -2, -2, -2>> /\ ~p.UseSkip
      [] template = 1 -> p.GBAt[1] = 3 /\ p.GBAt[2] = -1 /\ ~p.UseSkip
      [] template = 2 -> p.GBAt[1] = 2 /\ p.GBAt[2] = -1 /\ ~p.UseSkip
      [] OTHER -> FALSE

useOptimisedTemplate3(p) == p.GBAt[1] = 2 /\ p.GBAt[2] = -1 /\ ~p.UseSkip

Failed(G) == [G EXCEPT !.err = TRUE]

\* one decision under context idx (the IsComplete and getArithContext checks
\* followed by decoder.Decode): [G, v]
DecodeBit(G, idx) ==
    IF G.err THEN [G |-> G, v |-> 0]
    ELSE IF G.d.complete \/ idx >= G.cx.size THEN [G |-> Failed(G), v |-> 0]
    ELSE Let(Decode(G.d, G.s, CtxAt(G.cx, idx)), LAMBDA r :
             IF ~r.ok THEN [G |-> Failed(G), v |-> 0]
             ELSE [G |-> [G EXCEPT !.d = r.d, !.s = r.s,
                                   !.cx = CtxPut(G.cx, idx, r.e)],
                   v |-> r.D])

\* the typical-prediction decision that opens a row when TPGDON is set
LtpStep(p, G, idx) ==
    IF ~p.TPGDON THEN G
    ELSE Let(DecodeBit(G, idx), LAMBDA r :
             IF r.G.err THEN r.G
             ELSE [r.G EXCEPT !.ltp = (@ + r.v) % 2])

RECURSIVE UnoptPixels(_, _, _, _, _, _, _, _)
UnoptPixels(p, G, h, unopt, w, line1, line2, line3) ==
    IF G.err \/ w >= p.GBWidth THEN G
    ELSE
      LET mod2 == unopt % 2
          div2 == unopt \div 2
          shift == 4 - unopt
          skipped == p.UseSkip /\ ~IsNil(p.Skip)
                     /\ GetPixel(Val(p.Skip), w, h) # 0
          at(k) == GetPixel(G.img, w + p.GBAt[k], h + p.GBAt[k + 1])
          c0 == BitOr(BitOr(BitOr(line3, Shl(at(1), shift)),
                            Shl(line2, shift + 1)),
                      Shl(line1, optConstant9[unopt + 1]))
          ctxVal == IF unopt = 0
                    THEN BitOr(BitOr(BitOr(c0, Shl(at(3), 10)), Shl(at(5), 11)),
                               Shl(at(7), 15))
                    ELSE c0
      IN  Let(IF skipped THEN [G |-> G, v |-> 0] ELSE DecodeBit(G, ctxVal),
              LAMBDA r :
          Let(IF r.v # 0 THEN SetPixel(r.G.img, w, h, r.v) ELSE r.G.img,
              LAMBDA img2 :
              IF r.G.err THEN r.G
              ELSE UnoptPixels(p, [r.G EXCEPT !.img = img2], h, unopt, w + 1,
                     BitAnd(BitOr(Shl(line1, 1),
                                  GetPixel(img2, w + 2 + mod2, h - 2)),
                            optConstant10[unopt + 1]),
                     BitAnd(BitOr(Shl(line2, 1),
                                  GetPixel(img2, w + 3 - div2, h - 1)),
                            optConstant11[unopt + 1]),
                     BitAnd(BitOr(Shl(line3, 1), r.v), optConstant12[unopt + 1]))))

\* the row h once the typical-prediction decision is taken
UnoptLine(p, G, h, unopt) ==
    LET mod2 == unopt % 2
        div2 == unopt \div 2
        l1a == BitOr(GetPixel(G.img, 1 + mod2, h - 2),
                     Shl(GetPixel(G.img, mod2, h - 2), 1))
        line1 == IF unopt = 1 THEN BitOr(l1a, Shl(GetPixel(G.img, 0, h - 2), 2))
                 ELSE l1a
        l2a == BitOr(GetPixel(G.img, 2 - div2, h - 1),
                     Shl(GetPixel(G.img, 1 - div2, h - 1), 1))
        line2 == IF unopt < 2 THEN BitOr(l2a, Shl(GetPixel(G.img, 0, h - 1), 2))
                 ELSE l2a
    IN  IF G.err THEN G
        ELSE IF G.ltp # 0
        THEN IF h > 0 THEN [G EXCEPT !.img = CopyLine(G.img, h, h - 1)] ELSE G
        ELSE UnoptPixels(p, G, h, unopt, 0, line1, line2, 0)

processTemplateUnoptLine(p, G0, h, unopt) ==
    UnoptLine(p, LtpStep(p, G0, optConstant1[unopt + 1]), h, unopt)

RECURSIVE Unopt3Pixels(_, _, _, _, _, _)
Unopt3Pixels(p, G, h, w, line1, line2) ==
    IF G.err \/ w >= p.GBWidth THEN G
    ELSE
      LET skipped == p.UseSkip /\ ~IsNil(p.Skip)
                     /\ GetPixel(Val(p.Skip), w, h) # 0
          ctxVal == BitOr(BitOr(line2,
                       Shl(GetPixel(G.img, w + p.GBAt[1], h + p.GBAt[2]), 4)),
                       Shl(line1, 5))
      IN  Let(IF skipped THEN [G |-> G, v |-> 0] ELSE DecodeBit(G, ctxVal),
              LAMBDA r :
          Let(IF r.v # 0 THEN SetPixel(r.G.img, w, h, r.v) ELSE r.G.img,
              LAMBDA img2 :
              IF r.G.err THEN r.G
              ELSE Unopt3Pixels(p, [r.G EXCEPT !.img = img2], h, w + 1,
                     BitAnd(BitOr(Shl(line1, 1), GetPixel(img2, w + 2, h - 1)), 31),
                     BitAnd(BitOr(Shl(line2, 1), r.v), 15))))

Unopt3Line(p, G, h) ==
    IF G.err THEN G
    ELSE IF G.ltp # 0
    THEN IF h > 0 THEN [G EXCEPT !.img = CopyLine(G.img, h, h - 1)] ELSE G
    ELSE Unopt3Pixels(p, G, h, 0,
                      BitOr(GetPixel(G.img, 1, h - 1),
                            Shl(GetPixel(G.img, 0, h - 1), 1)), 0)

processTemplate3UnoptLine(p, G0, h) ==
    Unopt3Line(p, LtpStep(p, G0, tpgdContext3), h)

\* (v << 8) on a uint32 row window.  Only bits 0..18 of a window are ever
\* read, so the window is kept modulo 2^30.
Shl8(v) == (v % 4194304) * 256

\* byte i (from 0) of the image data, and the data with byte i replaced
ByteAt(img, i) == Data(img)[i + 1]
PutByte(img, i, b) == [img EXCEPT !.data = Some([Data(img) EXCEPT ![i + 1] = b])]

\* copy(current[:lineBytes], line[offset-stride:offset-stride+lineBytes])
CopyPrevBytes(img, offset, lineBytes) ==
    [img EXCEPT !.data = Some(
        [i \in 1..Len(Data(img)) |->
            IF i > offset /\ i <= offset + lineBytes
            THEN Data(img)[i - img.stride] ELSE Data(img)[i]])]

\* the bits j = from, from-1, .. , to of one byte of a row of templates 0..2:
\* [G, cv, cVal]
RECURSIVE OptBits(_, _, _, _, _, _, _, _)
OptBits(G, opt, cv, l1, l2, j, to, cVal) ==
    IF G.err \/ j < to THEN [G |-> G, cv |-> cv, cVal |-> cVal]
    ELSE Let(DecodeBit(G, cv), LAMBDA r :
             OptBits(r.G, opt,
                 BitOr(BitOr(BitOr(
                     Shl(BitAnd(cv, optConstant6[opt + 1]), 1), r.v),
                     BitAnd(Shr(l1, j), optConstant7[opt + 1])),
                     BitAnd(Shr(l2, j + optConstant4[opt + 1]),
                            optConstant8[opt + 1])),
                 l1, l2, j - 1, to, BitOr(cVal, Shl(r.v, j))))

\* the whole bytes cc .. lastByte-1 of a row: [G, cv, l1, l2]
RECURSIVE OptBytes(_, _, _, _, _, _, _, _)
OptBytes(G, opt, offset, cc, lastByte, cv, l1, l2) ==
    IF G.err \/ cc >= lastByte THEN [G |-> G, cv |-> cv, l1 |-> l1, l2 |-> l2]
    ELSE LET stride == G.img.stride
             n1 == BitOr(Shl8(l1),
                     Shl(ByteAt(G.img, offset - 2 * stride + cc + 1),
                         optConstant2[opt + 1]))
             n2 == BitOr(Shl8(l2), ByteAt(G.img, offset - stride + cc + 1))
         IN  Let(OptBits(G, opt, cv, n1, n2, 7, 0, 0), LAMBDA r :
                 OptBytes(IF r.G.err THEN r.G
                          ELSE [r.G EXCEPT !.img = PutByte(@, offset + cc, r.cVal)],
                          opt, offset, cc + 1, lastByte, r.cv, n1, n2))

\* the row h >= 2 once the typical-prediction decision is taken
OptLine(p, G, h, opt) ==
    LET stride == G.img.stride
        lineBytes == (p.GBWidth + 7) \div 8
        bitsLeft == p.GBWidth - (lineBytes - 1) * 8
        offset == h * stride
        l1 == Shl(ByteAt(G.img, offset - 2 * stride), optConstant2[opt + 1])
        l2 == ByteAt(G.img, offset - stride)
        cv == BitOr(BitAnd(l1, optConstant3[opt + 1]),
                    BitAnd(Shr(l2, optConstant4[opt + 1]), optConstant5[opt + 1]))
        lastByte == lineBytes - 1
    IN  IF G.err THEN G
        ELSE IF G.ltp # 0
        THEN [G EXCEPT !.img = CopyPrevBytes(@, offset, lineBytes)]
        ELSE Let(OptBytes(G, opt, offset, 0, lastByte, cv, l1, l2), LAMBDA b :
             Let(OptBits(b.G, opt, b.cv, Shl8(b.l1), Shl8(b.l2), 7,
                         8 - bitsLeft, 0), LAMBDA t :
                 IF t.G.err THEN t.G
                 ELSE [t.G EXCEPT !.img = PutByte(@, offset + lastByte, t.cVal)]))

processTemplateOptLine(p, G0, h, opt) ==
    IF h <= 1 THEN processTemplateUnoptLine(p, G0, h, opt)
    ELSE OptLine(p, LtpStep(p, G0, optConstant1[opt + 1]), h, opt)

\* template 3: withPrev is FALSE on row 0, where no previous row is read
RECURSIVE Opt3Bits(_, _, _, _, _, _, _)
Opt3Bits(G, withPrev, cv, line1, j, to, cVal) ==
    IF G.err \/ j < to THEN [G |-> G, cv |-> cv, cVal |-> cVal]
    ELSE Let(DecodeBit(G, cv), LAMBDA r :
             Opt3Bits(r.G, withPrev,
                 IF withPrev
                 THEN BitOr(BitOr(Shl(BitAnd(cv, 503), 1), r.v),
                            BitAnd(Shr(line1, j + 1), 16))
                 ELSE BitOr(Shl(BitAnd(cv, 503), 1), r.v),
                 line1, j - 1, to, BitOr(cVal, Shl(r.v, j))))

RECURSIVE Opt3Bytes(_, _, _, _, _, _, _)
Opt3Bytes(G, withPrev, offset, cc, lastByte, cv, line1) ==
    IF G.err \/ cc >= lastByte THEN [G |-> G, cv |-> cv, line1 |-> line1]
    ELSE LET n1 == IF withPrev
                   THEN BitOr(Shl8(line1),
                              ByteAt(G.img, offset - G.img.stride + cc + 1))
                   ELSE line1
         IN  Let(Opt3Bits(G, withPrev, cv, n1, 7, 0, 0), LAMBDA r :
                 Opt3Bytes(IF r.G.err THEN r.G
                           ELSE [r.G EXCEPT !.img = PutByte(@, offset + cc, r.cVal)],
                           withPrev, offset, cc + 1, lastByte, r.cv, n1))

\* the row h once the typical-prediction decision is taken.  On row 0 with
\* ltp set the copy slices line[-stride:], which panics.
Opt3Line(p, G, h) ==
    LET stride == G.img.stride
        lineBytes == (p.GBWidth + 7) \div 8
        bitsLeft == p.GBWidth - (lineBytes - 1) * 8
        offset == h * stride
        withPrev == h > 0
        line1 == IF withPrev THEN ByteAt(G.img, offset - stride) ELSE 0
        cv == IF withPrev THEN BitAnd(Shr(line1, 1), 1008) ELSE 0
        lastByte == lineBytes - 1
    IN  IF G.err THEN G
        ELSE IF G.ltp # 0
        THEN IF h = 0 THEN [G EXCEPT !.err = TRUE, !.panic = TRUE]
             ELSE [G EXCEPT !.img = CopyPrevBytes(@, offset, lineBytes)]
        ELSE Let(Opt3Bytes(G, withPrev, offset, 0, lastByte, cv, line1), LAMBDA b :
             Let(Opt3Bits(b.G, withPrev, b.cv, Shl8(b.line1), 7, 8 - bitsLeft, 0),
                 LAMBDA t :
                 IF t.G.err THEN t.G
                 ELSE [t.G EXCEPT !.img = PutByte(@, offset + lastByte, t.cVal)]))

processTemplate3OptLine(p, G0, h) == Opt3Line(p, LtpStep(p, G0, tpgdContext3), h)

\* the row dispatch of continueArithmetic
DecodeRow(p, G, h) ==
    CASE p.GBTemplate \in {0, 1, 2} ->
           IF useOptimisedTemplate(p, p.GBTemplate)
           THEN processTemplateOptLine(p, G, h, p.GBTemplate)
           ELSE processTemplateUnoptLine(p, G, h, p.GBTemplate)
      [] p.GBTemplate = 3 ->
           IF useOptimisedTemplate3(p) THEN processTemplate3OptLine(p, G, h)
           ELSE processTemplate3UnoptLine(p, G, h)
      [] OTHER -> processTemplate3UnoptLine(p, G, h)

\* the pause indicator once it has been asked, and its answer
Asked(pause) ==
    IF IsNil(pause) \/ Val(pause) = <<>> THEN pause ELSE Some(Tail(Val(pause)))
Asks(pause) == ~IsNil(pause) /\ Val(pause) # <<>> /\ Head(Val(pause))

\* continueArithmetic: rows from loopIndex on, pausing after a row when the
\* indicator asks.  R = [p, G, pause, status]
RECURSIVE ArithRows(_, _, _, _)
ArithRows(p, G, pause, startLine) ==
    IF p.loopIndex >= p.GBHeight
    THEN [p |-> [p EXCEPT !.progressiveStatus = CodecStatusFinished,
                          !.replaceRect = Rect(0, 0, G.img.width, G.img.height)],
          G |-> G, pause |-> pause, status |-> CodecStatusFinished]
    ELSE Let(DecodeRow(p, G, p.loopIndex), LAMBDA G2 :
             IF G2.err
             THEN [p |-> [p EXCEPT !.progressiveStatus = CodecStatusError,
                                   !.ltp = G2.ltp],
                   G |-> G2, pause |-> pause, status |-> CodecStatusError]
             ELSE IF Asks(pause)
             THEN [p |-> [p EXCEPT
                            !.loopIndex = @ + 1, !.ltp = G2.ltp,
                            !.progressiveStatus = CodecStatusToBeContinued,
                            !.replaceRect =
                                Rect(0, startLine, G2.img.width, p.loopIndex + 1)],
                   G |-> G2, pause |-> Asked(pause),
                   status |-> CodecStatusToBeContinued]
             ELSE ArithRows([p EXCEPT !.loopIndex = @ + 1, !.ltp = G2.ltp], G2,
                            Asked(pause), startLine))

continueArithmetic(p, G, pause) ==
    ArithRows(p, [G EXCEPT !.ltp = p.ltp], pause, p.loopIndex)

\* the answer of a decode call with the image it leaves in the slot
WithSlot(r) ==
    [p |-> r.p, G |-> r.G, pause |-> r.pause, status |-> r.status,
     slot |-> Some(r.G.img)]

\* StartDecodeArith on an image slot (nil or an image): R plus the slot
StartDecodeArith(p, slot, G, pause) ==
    IF ~IsValidImageSize(p.GBWidth, p.GBHeight)
    THEN [p |-> [p EXCEPT !.progressiveStatus = CodecStatusFinished,
                          !.replaceRect = Rect(0, 0, 0, 0)],
          G |-> G, pause |-> pause, status |-> CodecStatusFinished,
          slot |-> slot]
    ELSE LET img == IF IsNil(slot) THEN NewImage(p.GBWidth, p.GBHeight)
                    ELSE Val(slot)
         IN  IF ~HasData(img)
             THEN [p |-> p, G |-> Failed(G), pause |-> pause,
                   status |-> CodecStatusError, slot |-> Some(img)]
             ELSE WithSlot(continueArithmetic(
                      [p EXCEPT !.decodeType = 1, !.loopIndex = 0, !.ltp = 0,
                                !.progressiveStatus = CodecStatusReady],
                      [G EXCEPT !.img = Fill(img, FALSE)], pause))

ContinueDecode(p, slot, G, pause) ==
    IF p.decodeType # 1
    THEN [p |-> p, G |-> Failed(G), pause |-> pause,
          status |-> CodecStatusError, slot |-> slot]
    ELSE WithSlot(continueArithmetic(p, [G EXCEPT !.img = Val(slot)], pause))

----------------------------------------------------------------------------
(* Context (part_009): segment headers and the dispatcher.  The methods of *)
(* a Context act on the record                                             *)
(*   M = [c: the context, cache, heap, pause, res, err, fault]             *)
(* and answer it with res and err set.  A pause indicator is nil or the    *)
(* sequence of answers its next ShouldPause calls give (false afterwards). *)

DecodeResultSuccess == 0
DecodeResultFailure == 1
DecodeResultEndReached == 2

segmentTypeSymbolDict == 0
segmentTypeTextRegionImmediate == 4
segmentTypeTextRegionImmediateLossless == 6
segmentTypeTextRegionRefine == 7
segmentTypePatternDict == 16
segmentTypeHalftoneRegion == 20
segmentTypeHalftoneRegionImmediate == 22
segmentTypeHalftoneRegionImmediateLossless == 23
segmentTypeGenericRegion == 36
segmentTypeGenericRegionImmediate == 38
segmentTypeGenericRegionImmediateLossless == 39
segmentTypeRefinementRegion == 40
segmentTypeRefinementRegionImmediate == 42
segmentTypeRefinementRegionImmediateLossless == 43
segmentTypePageInfo == 48
segmentTypeEndOfPage == 49
segmentTypeEndOfStripe == 50
segmentTypeEndOfFile == 51
segmentTypeTables == 53

JBIG2MinSegmentSize == 11
symbolDictCacheMaxSize == 2
JBig2MaxReferredSegmentCount == 64
unboundedPageHeight == U32Max

ResultTypeVoid == 0
ResultTypeImage == 1
ResultTypeSymbolDict == 2

huffContextSize(template) ==
    CASE template = 0 -> 65536
      [] template = 1 -> 8192
      [] OTHER -> 1024

Ret(M, res, err) == [M EXCEPT !.res = res, !.err = err]
Fail(M) == Ret(M, DecodeResultFailure, TRUE)
Succeed(M) == Ret(M, DecodeResultSuccess, FALSE)
\* a Go panic inside the call: the call never returns to its caller
Panic(M) == [Fail(M) EXCEPT !.fault = "panic"]
\* a decoding procedure this model does not cover
Unmodelled(M) == [Fail(M) EXCEPT !.fault = "unmodelled"]

\* pause != nil && pause.ShouldPause(): [v, M]
AskPause(M) ==
    IF IsNil(M.pause) THEN [v |-> FALSE, M |-> M]
    ELSE IF Val(M.pause) = <<>> THEN [v |-> FALSE, M |-> M]
    ELSE [v |-> Head(Val(M.pause)),
          M |-> [M EXCEPT !.pause = Some(Tail(Val(M.pause)))]]

NewSegment ==
    [Number |-> U32(0, 0), Flags |-> 0, ReferredToSegmentCount |-> 0,
     ReferredToSegmentNumbers |-> <<>>, PageAssociation |-> U32(0, 0),
     DataLength |-> U32(0, 0), DataOffset |-> 0, Key |-> 0,
     ResultType |-> ResultTypeVoid, SymbolDict |-> Nil, Image |-> Nil]

SegType(seg) == seg.Flags % 64
HasLongPageAssociation(seg) == Bit(seg.Flags, 6) = 1

\* readReferredSegmentCount without the bound on the count: [ok, v, s]
readReferredSegmentCountUnbounded(s) ==
    IF Shr(CurByte(s), 5) = 7
    THEN Let(ReadUint32(s), LAMBDA r :
             IF ~r.ok THEN [ok |-> FALSE, v |-> 0, s |-> r.s]
             ELSE [ok |-> TRUE, v |-> (r.v.hi % 8192) * 65536 + r.v.lo, s |-> r.s])
    ELSE Let(ReadByte(s), LAMBDA r :
             IF ~r.ok THEN [ok |-> FALSE, v |-> 0, s |-> r.s]
             ELSE [ok |-> TRUE, v |-> Shr(CurByte(s), 5), s |-> r.s])

\* readReferredSegmentCount: [ok, v, s]
readReferredSegmentCount(s) ==
    IF Shr(CurByte(s), 5) = 7
    THEN Let(ReadUint32(s), LAMBDA r :
             IF ~r.ok THEN [ok |-> FALSE, v |-> 0, s |-> r.s]
             ELSE IF (r.v.hi % 8192) * 65536 + r.v.lo > JBig2MaxReferredSegmentCount
             THEN [ok |-> FALSE, v |-> 0, s |-> r.s]
             ELSE [ok |-> TRUE, v |-> (r.v.hi % 8192) * 65536 + r.v.lo, s |-> r.s])
    ELSE Let(ReadByte(s), LAMBDA r :
             IF ~r.ok THEN [ok |-> FALSE, v |-> 0, s |-> r.s]
             ELSE [ok |-> TRUE, v |-> Shr(CurByte(s), 5), s |-> r.s])

segmentNumberSize(number) ==
    IF U32Gt(number, U32Of(65536)) THEN 4
    ELSE IF U32Gt(number, U32Of(256)) THEN 2
    ELSE 1

\* the referred-to segment numbers: [ok, v, s]
ReadReferred(s, count, size, number, acc) ==
    LET \* the i-th read finds its bytes; the number it reads
        fits(i) == s.byteIx + i * size <= Len(s.buf)
        at(i) == s.byteIx + (i - 1) * size
        ref(i) == CASE size = 1 -> U32Of(s.buf[at(i) + 1])
                    [] size = 2 -> U32Of(s.buf[at(i) + 1] * 256 + s.buf[at(i) + 2])
                    [] OTHER -> U32(s.buf[at(i) + 1] * 256 + s.buf[at(i) + 2],
                                    s.buf[at(i) + 3] * 256 + s.buf[at(i) + 4])
        n == Min(count, BytesLeft(s) \div size + 1)
        bad == {i \in 1..n : ~fits(i) \/ U32Ge(ref(i), number)}
        first == CHOOSE k \in bad : \A j \in bad : k <= j
    IN  IF bad = {}
        THEN [ok |-> TRUE, v |-> acc \o [i \in 1..count |-> ref(i)],
              s |-> [s EXCEPT !.byteIx = @ + count * size]]
        ELSE [ok |-> FALSE, v |-> acc,
              s |-> [s EXCEPT !.byteIx =
                        @ + (IF fits(first) THEN first ELSE first - 1) * size]]

\* the page association of a segment header, one byte or four: [ok, v, s]
ReadPageAssociation(s, long) ==
    IF long THEN ReadUint32(s)
    ELSE Let(ReadByte(s), LAMBDA b : [ok |-> b.ok, v |-> U32Of(b.v), s |-> b.s])

\* parseSegmentHeader on the context c: [ok, c, seg]
parseSegmentHeader(c) ==
    LET no(x) == [ok |-> FALSE, c |-> x, seg |-> NewSegment]
    IN  Let(ReadUint32(c), LAMBDA r1 :
        IF ~r1.ok THEN no(r1.s) ELSE
        Let(ReadByte(r1.s), LAMBDA r2 :
        IF ~r2.ok THEN no(r2.s) ELSE
        Let(readReferredSegmentCount(r2.s), LAMBDA r3 :
        IF ~r3.ok THEN no(r3.s) ELSE
        Let(ReadReferred(r3.s, r3.v, segmentNumberSize(r1.v), r1.v, <<>>),
            LAMBDA r4 :
        IF ~r4.ok THEN no(r4.s) ELSE
        Let(ReadPageAssociation(r4.s, Bit(r2.v, 6) = 1), LAMBDA r5 :
        IF ~r5.ok THEN no(r5.s) ELSE
        Let(ReadUint32(r5.s), LAMBDA r6 :
        IF ~r6.ok THEN no(r6.s) ELSE
        [ok |-> TRUE, c |-> r6.s,
         seg |-> [NewSegment EXCEPT !.Number = r1.v, !.Flags = r2.v,
                                    !.ReferredToSegmentCount = r3.v,
                                    !.ReferredToSegmentNumbers = r4.v,
                                    !.PageAssociation = r5.v,
                                    !.DataLength = r6.v,
                                    !.Key = r6.s.key,
                                    !.DataOffset = Offset(r6.s)]]))))))

ShouldTreatAsStriped(info) == info.Striped \/ info.Height = unboundedPageHeight

HasPage(c) == ~IsNil(c.page) /\ HasData(Val(c.page))

\* the page information and the page image once the fields are read
PageInfoRead(M, c, v) ==
    LET info == [Width |-> v[1], Height |-> v[2],
                 ResolutionX |-> v[3], ResolutionY |-> v[4],
                 DefaultPixelValue |-> Bit(v[5], 2) = 1,
                 Striped |-> Bit(v[6], 15) = 1,
                 MaxStripeSize |-> v[6] % 32768]
        heightToAlloc == IF info.Height = unboundedPageHeight
                         THEN U32Of(info.MaxStripeSize) ELSE info.Height
        c1 == [c EXCEPT !.pageInfos = Append(@, info)]
    IN  Let(IF ~c1.bufSpecified
            THEN [c1 EXCEPT !.page = Some(NewImage(AsInt32(info.Width),
                                                   AsInt32(heightToAlloc)))]
            ELSE c1, LAMBDA c2 :
            IF ~HasPage(c2)
            THEN Fail([M EXCEPT !.c = [c2 EXCEPT !.processing = CodecStatusError]])
            ELSE Succeed([M EXCEPT !.c =
                     [c2 EXCEPT !.page = Some(Fill(Val(c2.page),
                                                   info.DefaultPixelValue)),
                                !.inPage = TRUE]]))

parsePageInfoSegment(M) ==
    Let(ReadFields(M.c, <<4, 4, 4, 4, 1, 2>>, <<>>), LAMBDA r :
        IF ~r.ok THEN Fail([M EXCEPT !.c = r.s])
        ELSE PageInfoRead(M, r.s, r.vals))

\* parseRegionInfo: [ok, c] with c.ri set
parseRegionInfo(c) ==
    Let(ReadFields(c, <<4, 4, 4, 4, 1>>, <<>>), LAMBDA r :
        IF ~r.ok THEN [ok |-> FALSE, c |-> r.s]
        ELSE [ok |-> TRUE,
              c |-> [r.s EXCEPT !.ri = [Width |-> AsInt32(r.vals[1]),
                                        Height |-> AsInt32(r.vals[2]),
                                        X |-> AsInt32(r.vals[3]),
                                        Y |-> AsInt32(r.vals[4]),
                                        Flags |-> r.vals[5]]]])

latestPageInfo(c) ==
    IF c.pageInfos = <<>> THEN Nil ELSE Some(c.pageInfos[Len(c.pageInfos)])

ensurePageHeight(c, target) ==
    IF IsNil(c.page) THEN c
    ELSE IF target <= Val(c.page).height THEN c
    ELSE IF target <= 0 \/ c.bufSpecified THEN c
    ELSE LET info == latestPageInfo(c)
         IN  IF IsNil(info) THEN c
             ELSE IF ~ShouldTreatAsStriped(Val(info)) THEN c
             ELSE [c EXCEPT !.page =
                      Some(Expand(Val(c.page), target, Val(info).DefaultPixelValue))]

\* composeRegion of the image in slot (nil or an image): [ok, c]
composeRegion(c, ri, slot, rect) ==
    IF IsNil(slot) THEN [ok |-> FALSE, c |-> c]
    ELSE IF ~HasData(Val(slot)) \/ ~HasPage(c) THEN [ok |-> FALSE, c |-> c]
    ELSE
      LET img == Val(slot)
          r == IF RectWidth(rect) <= 0 \/ RectHeight(rect) <= 0
               THEN Rect(0, 0, img.width, img.height) ELSE rect
      IN  IF RectWidth(r) <= 0 \/ RectHeight(r) <= 0 THEN [ok |-> TRUE, c |-> c]
          ELSE Let(ensurePageHeight(c, ri.Y + r.Bottom), LAMBDA c1 :
               Let(composeToInternal(img, Val(c1.page), ri.X + r.Left,
                                     ri.Y + r.Top, ri.Flags % 4, r), LAMBDA out :
                   IF ~out.ok THEN [ok |-> FALSE, c |-> c1]
                   ELSE [ok |-> TRUE, c |-> [c1 EXCEPT !.page = Some(out.dst)]]))

ensureArithDecoder(c) ==
    Let(NewArithDecoder([buf |-> c.buf, byteIx |-> c.byteIx, bitIx |-> c.bitIx]),
        LAMBDA r : [c EXCEPT !.arithDecoder = Some(r.d), !.byteIx = r.s.byteIx])

\* the GBAt bytes of a generic region header: [ok, v, s]
RECURSIVE ReadGBAt(_, _, _, _)
ReadGBAt(s, i, iLimit, gbat) ==
    IF i >= iLimit THEN [ok |-> TRUE, v |-> gbat, s |-> s]
    ELSE Let(ReadByte(s), LAMBDA r :
             IF ~r.ok THEN [ok |-> FALSE, v |-> gbat, s |-> r.s]
             ELSE ReadGBAt(r.s, i + 1, iLimit, [gbat EXCEPT ![i + 1] = Int8(r.v)]))

\* the rows of a skip image, copied from the stream: [ok, img, s].  Slicing
\* the stream past its end panics.
RECURSIVE ReadSkipRows(_, _, _, _)
ReadSkipRows(s, img, row, stride) ==
    IF row >= img.height THEN [ok |-> TRUE, img |-> img, s |-> s]
    ELSE IF BytesLeft(s) < stride THEN [ok |-> FALSE, img |-> img, s |-> s]
    ELSE ReadSkipRows(AddOffset(s, stride),
           [img EXCEPT !.data = Some(
               [i \in 1..Len(Data(img)) |->
                   IF i > row * img.stride /\ i <= row * img.stride + stride
                   THEN s.buf[s.byteIx + i - row * img.stride]
                   ELSE Data(img)[i]])],
           row + 1, stride)

\* the generic region header filled in: the procedure is kept on the context
\* and the segment's result is an image
HeaderDone(c, proc) ==
    [ok |-> TRUE, fault |-> "none",
     c |-> [c EXCEPT !.grdProc = Some(proc),
                     !.currentSegment =
                         Some([Val(@) EXCEPT !.ResultType = ResultTypeImage])]]

HeaderFailed(c) == [ok |-> FALSE, fault |-> "none", c |-> c]

\* the skip image of a generic region header, read from the stream s
ReadSkip(s, proc, skipWidth, skipHeight) ==
    IF ~IsValidImageSize(skipWidth, skipHeight) THEN HeaderFailed(s)
    ELSE Let(NewImage(skipWidth, skipHeight), LAMBDA skip :
             IF ~HasData(skip) THEN HeaderFailed(s)
             ELSE Let(ReadSkipRows(s, skip, 0, (skipWidth + 7) \div 8), LAMBDA r5 :
                      IF ~r5.ok THEN [ok |-> FALSE, fault |-> "panic", c |-> r5.s]
                      ELSE HeaderDone(r5.s, [proc EXCEPT !.Skip = Some(r5.img)])))

\* the adaptive-template bytes and the skip image, after the flag byte
HeaderFlags(s, proc0) ==
    Let(IF proc0.MMR THEN [ok |-> TRUE, v |-> proc0.GBAt, s |-> s]
        ELSE ReadGBAt(s, 0, IF proc0.GBTemplate = 0 THEN 8 ELSE 2, proc0.GBAt),
        LAMBDA r3 :
        IF ~r3.ok THEN HeaderFailed(r3.s)
        ELSE IF ~proc0.UseSkip THEN HeaderDone(r3.s, [proc0 EXCEPT !.GBAt = r3.v])
        ELSE Let(ReadFields(r3.s, <<4, 4>>, <<>>), LAMBDA r4 :
                 IF ~r4.ok THEN HeaderFailed(r4.s)
                 ELSE ReadSkip(r4.s, [proc0 EXCEPT !.GBAt = r3.v],
                               AsInt32(r4.vals[1]), AsInt32(r4.vals[2]))))

\* the header part of parseGenericRegionSegment, run while c.grdProc is nil:
\* [ok, fault, c]
genericRegionHeader(c) ==
    Let(parseRegionInfo(c), LAMBDA r1 :
        IF ~r1.ok THEN HeaderFailed(r1.c)
        ELSE IF ~IsValidImageSize(r1.c.ri.Width, r1.c.ri.Height)
        THEN HeaderFailed(r1.c)
        ELSE Let(ReadByte(r1.c), LAMBDA r2 :
                 IF ~r2.ok THEN HeaderFailed(r2.s)
                 ELSE HeaderFlags(r2.s,
                          [NewGRDProc EXCEPT
                              !.MMR = Bit(r2.v, 0) = 1,
                              !.GBTemplate = Shr(r2.v, 1) % 4,
                              !.TPGDON = Bit(r2.v, 3) = 1,
                              !.UseSkip = Bit(r2.v, 4) = 1,
                              !.GBWidth = r1.c.ri.Width,
                              !.GBHeight = r1.c.ri.Height])))

\* the context once the decode call r on the segment image has returned
AfterDecode(c, r) ==
    [c EXCEPT !.arithDecoder = Some(r.G.d),
              !.byteIx = r.G.s.byteIx,
              !.gbContexts = r.G.cx,
              !.grdProc = Some(r.p),
              !.currentSegment = Some([Val(@) EXCEPT !.Image = r.slot])]

RegionErrored(M, c) == Fail([M EXCEPT !.c = [c EXCEPT !.processing = CodecStatusError]])

\* the replace rectangle of the procedure, or the whole image when empty
ReplaceRectOf(p, img) ==
    IF RectWidth(p.replaceRect) <= 0 \/ RectHeight(p.replaceRect) <= 0
    THEN Rect(0, 0, img.width, img.height) ELSE p.replaceRect

\* the generic region state dropped at the end of a region
RegionCleared(c, image) ==
    [c EXCEPT !.grdProc = Nil, !.gbContexts = MakeContexts(0),
              !.arithDecoder = Nil,
              !.currentSegment = Some([Val(@) EXCEPT !.Image = image])]

\* the switch on the status the decode call answered; M carries the context
\* after the call
RegionStatus(M, status, rect) ==
    LET seg == Val(M.c.currentSegment)
        immediate == SegType(seg) # segmentTypeGenericRegion
    IN  IF status = CodecStatusToBeContinued
        THEN Let([M.c EXCEPT !.processing = CodecStatusToBeContinued], LAMBDA c4 :
                 IF ~immediate THEN Succeed([M EXCEPT !.c = c4])
                 ELSE Let(composeRegion(c4, c4.ri, seg.Image, rect), LAMBDA k :
                          IF ~k.ok THEN RegionErrored(M, k.c)
                          ELSE Succeed([M EXCEPT !.c = k.c])))
        ELSE IF status = CodecStatusFinished
        THEN Let(AddOffset(AlignByte(M.c), 2), LAMBDA c4 :
                 IF ~immediate
                 THEN Succeed([M EXCEPT !.c = RegionCleared(c4, seg.Image)])
                 ELSE Let(composeRegion(c4, c4.ri, seg.Image, rect), LAMBDA k :
                          IF ~k.ok THEN RegionErrored(M, k.c)
                          ELSE Succeed([M EXCEPT !.c = RegionCleared(k.c, Nil)])))
        ELSE IF status = CodecStatusError THEN RegionErrored(M, M.c)
        ELSE Succeed(M)

\* what follows the decode call r
RegionDecoded(M, r) ==
    IF r.G.err
    THEN IF r.G.panic THEN Panic(M) ELSE RegionErrored(M, M.c)
    ELSE IF IsNil(r.slot) THEN Fail(M)
    ELSE RegionStatus(M, r.status, ReplaceRectOf(r.p, Val(r.slot)))

\* the context with the arithmetic contexts and the decoder in place
ArithReady(c) ==
    Let(IF c.gbContexts.size = 0
        THEN [c EXCEPT !.gbContexts =
                 MakeContexts(huffContextSize(Val(c.grdProc).GBTemplate))]
        ELSE c, LAMBDA c1 :
        IF IsNil(c1.arithDecoder) THEN ensureArithDecoder(c1) ELSE c1)

\* the decode call on the segment image
RegionDecode(c, pause) ==
    LET seg == Val(c.currentSegment)
        G == [d |-> Val(c.arithDecoder),
              s |-> [buf |-> c.buf, byteIx |-> c.byteIx, bitIx |-> c.bitIx],
              cx |-> c.gbContexts, img |-> EmptyImage, ltp |-> 0,
              err |-> FALSE, panic |-> FALSE]
    IN  IF IsNil(seg.Image)
        THEN StartDecodeArith(Val(c.grdProc), seg.Image, G, pause)
        ELSE ContinueDecode(Val(c.grdProc), seg.Image, G, pause)

\* the arithmetic part of parseGenericRegionSegment
genericRegionArith(M) ==
    Let(ArithReady(M.c), LAMBDA c2 :
    Let(RegionDecode(c2, M.pause), LAMBDA r :
        RegionDecoded([M EXCEPT !.c = AfterDecode(c2, r), !.pause = r.pause], r)))

parseGenericRegionSegment(M) ==
    Let(IF IsNil(M.c.grdProc) THEN genericRegionHeader(M.c)
        ELSE [ok |-> TRUE, fault |-> "none", c |-> M.c], LAMBDA h :
        IF ~h.ok
        THEN IF h.fault = "panic" THEN Panic([M EXCEPT !.c = h.c])
             ELSE Fail([M EXCEPT !.c = h.c])
        ELSE IF Val(h.c.grdProc).MMR
        THEN Unmodelled([M EXCEPT !.c = h.c])
        ELSE genericRegionArith([M EXCEPT !.c =
                 [h.c EXCEPT !.currentSegment =
                     Some([Val(@) EXCEPT !.ResultType = ResultTypeImage])]]))

(* Arithmetic integer decoder (arith_int_decoder.go) ----------------------*)

arithIntDecodeData ==
    <<[needBits |-> 2, base |-> 0], [needBits |-> 4, base |-> 4],
      [needBits |-> 6, base |-> 20], [needBits |-> 8, base |-> 84],
      [needBits |-> 12, base |-> 340], [needBits |-> 32, base |-> 4436]>>

\* NewArithIntDecoder: 512 default contexts
NewArithIntDecoder == MakeContexts(512)

shiftOr(val, bit) == val * 2 + bit

\* arith.Decode(&dec.ctx[prev]) and prev = shiftOr(prev, bit), on the record
\* X = [ok, ctx, d, s, prev, bit]
NextBit(X) ==
    IF ~X.ok THEN X
    ELSE Let(Decode(X.d, X.s, CtxAt(X.ctx, X.prev)), LAMBDA r :
             IF ~r.ok THEN [X EXCEPT !.ok = FALSE]
             ELSE [X EXCEPT !.d = r.d, !.s = r.s,
                            !.ctx = CtxPut(X.ctx, X.prev, r.e),
                            !.prev = shiftOr(X.prev, r.D), !.bit = r.D])

\* recursiveDecode: the prefix that selects a row of arithIntDecodeData,
\* [X, depth]
RECURSIVE recursiveDecode(_, _)
recursiveDecode(X, depth) ==
    IF depth = Len(arithIntDecodeData) - 1 THEN [X |-> X, depth |-> depth]
    ELSE Let(NextBit(X), LAMBDA Y :
             IF ~Y.ok THEN [X |-> Y, depth |-> 0]
             ELSE IF Y.bit = 0 THEN [X |-> Y, depth |-> depth]
             ELSE recursiveDecode(Y, depth + 1))

\* the needBits value bits, collected in the uint32 temp: [X, temp]
RECURSIVE ValueBits(_, _, _, _)
ValueBits(X, i, needBits, temp) ==
    IF i >= needBits THEN [X |-> X, temp |-> temp]
    ELSE Let(NextBit(X), LAMBDA Y :
             IF ~Y.ok THEN [X |-> Y, temp |-> temp]
             ELSE ValueBits([Y EXCEPT !.prev = IF @ >= 256
                                               THEN BitOr(BitAnd(@, 511), 256)
                                               ELSE @],
                            i + 1, needBits, U32AddInt(U32Shl(temp, 1), Y.bit)))

\* what ArithIntDecoder.Decode answers: [ok, v, inBand, ctx, d, s]
IntAnswer(X, ok, v, inBand) ==
    [ok |-> ok, v |-> v, inBand |-> inBand, ctx |-> X.ctx, d |-> X.d, s |-> X.s]

\* the value once its sign s, its base and its bits are known
IntValue(X, sign, base, temp) ==
    IF ~U32Small(temp) \/ U32Int(temp) > 2147483647 - base
    THEN IntAnswer(X, TRUE, 0, FALSE)
    ELSE LET value == base + U32Int(temp)
             result == IF sign = 1 /\ value > 0 THEN 0 - value ELSE value
         IN  IntAnswer(X, TRUE, result, ~(sign = 1 /\ result = 0))

\* ArithIntDecoder.Decode with the contexts dec of the decoder
ArithIntDecode(dec, d, s) ==
    Let(NextBit([ok |-> TRUE, ctx |-> dec, d |-> d, s |-> s, prev |-> 1,
                 bit |-> 0]), LAMBDA S1 :
        IF ~S1.ok THEN IntAnswer(S1, FALSE, 0, FALSE)
        ELSE Let(recursiveDecode(S1, 0), LAMBDA p :
             IF ~p.X.ok THEN IntAnswer(p.X, FALSE, 0, FALSE)
             ELSE Let(ValueBits(p.X, 0, arithIntDecodeData[p.depth + 1].needBits,
                                U32(0, 0)), LAMBDA q :
                  IF ~q.X.ok THEN IntAnswer(q.X, FALSE, 0, FALSE)
                  ELSE IntValue(q.X, S1.bit,
                                arithIntDecodeData[p.depth + 1].base, q.temp))))

(* Symbol dictionaries (symbol_dict.go).  A symbol bitmap is an address in *)
(* the heap, 0 for nil; a *SymbolDict is nil or a record of the addresses  *)
(* of its symbols and its two context arrays.                              *)

NewSymbolDict ==
    [symbols |-> <<>>, gbContexts |-> MakeContexts(0),
     grContexts |-> MakeContexts(0)]

\* a new bitmap on the heap: [heap, at]
Alloc(hp, img) == [heap |-> Append(hp, img), at |-> Len(hp) + 1]

\* cloneImage: [heap, at]
cloneImage(hp, a) ==
    IF a = 0 THEN [heap |-> hp, at |-> 0]
    ELSE Alloc(hp, [width |-> hp[a].width, height |-> hp[a].height,
                    stride |-> hp[a].stride, data |-> hp[a].data,
                    owned |-> TRUE])

\* the clones of the symbols from i on: [heap, symbols]
RECURSIVE CloneSymbols(_, _, _, _)
CloneSymbols(hp, symbols, i, acc) ==
    IF i > Len(symbols) THEN [heap |-> hp, symbols |-> acc]
    ELSE Let(cloneImage(hp, symbols[i]), LAMBDA r :
             CloneSymbols(r.heap, symbols, i + 1, Append(acc, r.at)))

\* a copy that shares the bitmaps of the dictionary it copies
ShallowCopy(hp, sd) == [heap |-> hp, dict |-> sd]

\* SymbolDict.DeepCopy: [heap, dict]
DeepCopy(hp, sd) ==
    IF IsNil(sd) THEN [heap |-> hp, dict |-> Nil]
    ELSE Let(CloneSymbols(hp, Val(sd).symbols, 1, <<>>), LAMBDA r :
             [heap |-> r.heap,
              dict |-> Some([symbols |-> r.symbols,
                             gbContexts |-> Val(sd).gbContexts,
                             grContexts |-> Val(sd).grContexts])])

(* The symbol-dictionary cache of the document context --------------------*)

CompoundKey(streamKey, segment) == [StreamKey |-> streamKey, Segment |-> segment]

\* the position of the first entry under key from i on, 0 if there is none
RECURSIVE IndexOfKey(_, _, _)
IndexOfKey(entries, key, i) ==
    IF i > Len(entries) THEN 0
    ELSE IF entries[i].Key = key THEN i
    ELSE IndexOfKey(entries, key, i + 1)

\* a lookup that leaves the order of the entries alone
LookupInPlace(hasCache, entries, key) ==
    LET i == IndexOfKey(entries, key, 1)
    IN  IF ~hasCache \/ i = 0 THEN [cache |-> entries, dict |-> Nil, ok |-> FALSE]
        ELSE [cache |-> entries, dict |-> entries[i].Dict, ok |-> TRUE]

\* a lookup that finds nothing
LookupNothing(hasCache, entries, key) ==
    [cache |-> entries, dict |-> Nil, ok |-> FALSE]

\* LookupSymbolDict: [cache, dict, ok]; a hit moves its entry to the front
LookupSymbolDict(hasCache, entries, key) ==
    LET i == IndexOfKey(entries, key, 1)
    IN  IF ~hasCache \/ i = 0 THEN [cache |-> entries, dict |-> Nil, ok |-> FALSE]
        ELSE [cache |-> IF i > 1
                        THEN <<entries[i]>> \o SubSeq(entries, 1, i - 1)
                                 \o SubSeq(entries, i + 1, Len(entries))
                        ELSE entries,
              dict |-> entries[i].Dict, ok |-> TRUE]

\* the entries that are not under key, in order
RECURSIVE Filtered(_, _)
Filtered(entries, key) ==
    IF entries = <<>> THEN <<>>
    ELSE IF Head(entries).Key # key
    THEN <<Head(entries)>> \o Filtered(Tail(entries), key)
    ELSE Filtered(Tail(entries), key)

\* a store that keeps every entry
StoreUnbounded(hasCache, entries, key, dict) ==
    IF ~hasCache \/ IsNil(dict) THEN entries
    ELSE <<[Key |-> key, Dict |-> dict]>> \o Filtered(entries, key)

\* StoreSymbolDict: the cache after the store
StoreSymbolDict(hasCache, entries, key, dict) ==
    IF ~hasCache \/ IsNil(dict) THEN entries
    ELSE LET filtered == <<[Key |-> key, Dict |-> dict]>> \o Filtered(entries, key)
         IN  IF Len(filtered) > symbolDictCacheMaxSize
             THEN SubSeq(filtered, 1, symbolDictCacheMaxSize)
             ELSE filtered

(* Generic region decoding procedure, one-shot arithmetic path (part_008)  *)

\* a row of decodeArithTemplateUnopt
UnoptRow(p, G0, h, unopt) ==
    Let(LtpStep(p, G0, optConstant1[unopt + 1]), LAMBDA G :
        LET mod2 == unopt % 2
            div2 == unopt \div 2
            l1a == BitOr(GetPixel(G.img, 1 + mod2, h - 2),
                         Shl(GetPixel(G.img, mod2, h - 2), 1))
            line1 == IF unopt = 1
                     THEN BitOr(l1a, Shl(GetPixel(G.img, 0, h - 2), 2))
                     ELSE l1a
            l2a == BitOr(GetPixel(G.img, 2 - div2, h - 1),
                         Shl(GetPixel(G.img, 1 - div2, h - 1), 1))
            line2 == IF unopt < 2
                     THEN BitOr(l2a, Shl(GetPixel(G.img, 0, h - 1), 2))
                     ELSE l2a
        IN  IF G.err THEN G
            ELSE IF G.ltp # 0 THEN [G EXCEPT !.img = CopyLine(G.img, h, h - 1)]
            ELSE UnoptPixels(p, G, h, unopt, 0, line1, line2, 0))

RECURSIVE UnoptRows(_, _, _, _)
UnoptRows(p, G, h, unopt) ==
    IF G.err \/ h >= p.GBHeight THEN G
    ELSE UnoptRows(p, UnoptRow(p, G, h, unopt), h + 1, unopt)

\* decodeArithTemplateUnopt: G with the image decoded, or with err set
decodeArithTemplateUnopt(p, G, unopt) ==
    Let(NewImage(p.GBWidth, p.GBHeight), LAMBDA img :
        IF ~HasData(img) THEN Failed(G)
        ELSE UnoptRows(p, [G EXCEPT !.img = Fill(img, FALSE), !.ltp = 0], 0, unopt))

\* a row of decodeArithTemplate3Unopt
Unopt3Row(p, G0, h) ==
    Let(LtpStep(p, G0, tpgdContext3), LAMBDA G :
        IF G.err THEN G
        ELSE IF G.ltp # 0 THEN [G EXCEPT !.img = CopyLine(G.img, h, h - 1)]
        ELSE Unopt3Pixels(p, G, h, 0,
                          BitOr(GetPixel(G.img, 1, h - 1),
                                Shl(GetPixel(G.img, 0, h - 1), 1)), 0))

RECURSIVE Unopt3Rows(_, _, _)
Unopt3Rows(p, G, h) ==
    IF G.err \/ h >= p.GBHeight THEN G
    ELSE Unopt3Rows(p, Unopt3Row(p, G, h), h + 1)

\* decodeArithTemplate3Unopt: G with the image decoded, or with err set
decodeArithTemplate3Unopt(p, G) ==
    Let(NewImage(p.GBWidth, p.GBHeight), LAMBDA img :
        IF ~HasData(img) THEN Failed(G)
        ELSE Unopt3Rows(p, [G EXCEPT !.img = Fill(img, FALSE), !.ltp = 0], 0))

\* GRDProc.DecodeArith: [G, fault]; the image is G.img.  The byte-wise
\* decoders of the nominal template positions are not covered.
GRDProcDecodeArith(p, G) ==
    IF ~IsValidImageSize(p.GBWidth, p.GBHeight)
    THEN [G |-> [G EXCEPT !.img = NewImage(p.GBWidth, p.GBHeight)],
          fault |-> "none"]
    ELSE IF p.GBTemplate \in {0, 1, 2}
    THEN IF useOptimisedTemplate(p, p.GBTemplate)
         THEN [G |-> Failed(G), fault |-> "unmodelled"]
         ELSE [G |-> decodeArithTemplateUnopt(p, G, p.GBTemplate),
               fault |-> "none"]
    ELSE IF useOptimisedTemplate3(p)
    THEN [G |-> Failed(G), fault |-> "unmodelled"]
    ELSE [G |-> decodeArithTemplate3Unopt(p, G), fault |-> "none"]

(* Symbol dictionary decoding procedure (sdd_proc.go).  A decode in        *)
(* progress is the record                                                  *)
(*   S = [d, s, gb: generic contexts, heap, iadH, iadW, iaex, err, fault]  *)

NewSDDProc ==
    [SDHUFF |-> FALSE, SDREFAGG |-> FALSE, SDRTEMPLATE |-> FALSE,
     SDTEMPLATE |-> 0, SDNUMINSYMS |-> 0, SDNUMNEWSYMS |-> 0,
     SDNUMEXSYMS |-> 0, SDINSYMS |-> <<>>,
     SDAT |-> <<0, 0, 0, 0, 0, 0, 0, 0>>, SDRAT |-> <<0, 0, 0, 0>>]

SFailed(S) == [S EXCEPT !.err = TRUE]
SUnmodelled(S) == [S EXCEPT !.err = TRUE, !.fault = "unmodelled"]

\* one of the integer decoders of the procedure decodes: [S, v, inBand]
IntDecode(S, which) ==
    Let(ArithIntDecode(S[which], S.d, S.s), LAMBDA r :
        [S |-> [S EXCEPT ![which] = r.ctx, !.d = r.d, !.s = r.s,
                         !.err = ~r.ok],
         v |-> r.v, inBand |-> r.inBand])

\* decodeGenericSymbolArith: [S, at], at the address of the new bitmap
decodeGenericSymbolArith(p, S, width, height) ==
    Let(GRDProcDecodeArith(
            [NewGRDProc EXCEPT !.MMR = FALSE, !.TPGDON = FALSE,
                               !.UseSkip = FALSE, !.GBTemplate = p.SDTEMPLATE,
                               !.GBWidth = width, !.GBHeight = height,
                               !.GBAt = p.SDAT],
            [d |-> S.d, s |-> S.s, cx |-> S.gb, img |-> EmptyImage, ltp |-> 0,
             err |-> FALSE, panic |-> FALSE]), LAMBDA r :
        IF r.G.err
        THEN [S |-> [S EXCEPT !.d = r.G.d, !.s = r.G.s, !.gb = r.G.cx,
                              !.err = TRUE, !.fault = r.fault],
              at |-> 0]
        ELSE [S |-> [S EXCEPT !.d = r.G.d, !.s = r.G.s, !.gb = r.G.cx,
                              !.heap = Append(@, r.G.img)],
              at |-> Len(S.heap) + 1])

\* the symbols of one height class: width deltas up to the out-of-band
\* value.  [S, decoded, newSymbols]
RECURSIVE WidthLoop(_, _, _, _, _, _)
WidthDecoded(p, S, hcHeight, decoded, newSymbols, widthVal) ==
    Let(IF hcHeight = 0 \/ widthVal = 0 THEN [S |-> S, at |-> 0]
        ELSE IF ~p.SDREFAGG
        THEN decodeGenericSymbolArith(p, S, widthVal, hcHeight)
        ELSE [S |-> SUnmodelled(S), at |-> 0], LAMBDA sym :
        IF sym.S.err
        THEN [S |-> sym.S, decoded |-> decoded, newSymbols |-> newSymbols]
        ELSE WidthLoop(p, sym.S, hcHeight, widthVal, decoded + 1,
                       [newSymbols EXCEPT ![decoded + 1] = sym.at]))

WidthLoop(p, S, hcHeight, symWidth, decoded, newSymbols) ==
    Let(IntDecode(S, "iadW"), LAMBDA r :
        IF r.S.err \/ ~r.inBand
        THEN [S |-> r.S, decoded |-> decoded, newSymbols |-> newSymbols]
        ELSE IF decoded >= p.SDNUMNEWSYMS
                \/ symWidth + r.v < 0 \/ symWidth + r.v > JBig2MaxImageSize
        THEN [S |-> SFailed(r.S), decoded |-> decoded, newSymbols |-> newSymbols]
        ELSE WidthDecoded(p, r.S, hcHeight, decoded, newSymbols, symWidth + r.v))

\* the height classes, until every new symbol is decoded: [S, decoded,
\* newSymbols, oob], oob set when a height delta was out of band
RECURSIVE HeightClasses(_, _, _, _, _)
\* the loop were an out-of-band height delta to end it without an error
HeightClassesBreak(p, S, hcHeight, decoded, newSymbols) ==
    IF S.err \/ decoded >= p.SDNUMNEWSYMS
    THEN [S |-> S, decoded |-> decoded, newSymbols |-> newSymbols, oob |-> FALSE]
    ELSE Let(IntDecode(S, "iadH"), LAMBDA r :
             IF r.S.err
             THEN [S |-> r.S, decoded |-> decoded, newSymbols |-> newSymbols,
                   oob |-> FALSE]
             ELSE IF ~r.inBand
             THEN [S |-> r.S, decoded |-> decoded, newSymbols |-> newSymbols,
                   oob |-> TRUE]
             ELSE IF hcHeight + r.v < 0 \/ hcHeight + r.v > JBig2MaxImageSize
             THEN [S |-> SFailed(r.S), decoded |-> decoded,
                   newSymbols |-> newSymbols, oob |-> FALSE]
             ELSE Let(WidthLoop(p, r.S, hcHeight + r.v, 0, decoded, newSymbols),
                      LAMBDA w :
                      HeightClasses(p, w.S, hcHeight + r.v, w.decoded,
                                    w.newSymbols)))

HeightClasses(p, S, hcHeight, decoded, newSymbols) ==
    IF S.err \/ decoded >= p.SDNUMNEWSYMS
    THEN [S |-> S, decoded |-> decoded, newSymbols |-> newSymbols, oob |-> FALSE]
    ELSE Let(IntDecode(S, "iadH"), LAMBDA r :
             IF r.S.err
             THEN [S |-> r.S, decoded |-> decoded, newSymbols |-> newSymbols,
                   oob |-> FALSE]
             ELSE IF ~r.inBand
                     \/ hcHeight + r.v < 0 \/ hcHeight + r.v > JBig2MaxImageSize
             THEN [S |-> SFailed(r.S), decoded |-> decoded,
                   newSymbols |-> newSymbols, oob |-> ~r.inBand]
             ELSE Let(WidthLoop(p, r.S, hcHeight + r.v, 0, decoded, newSymbols),
                      LAMBDA w :
                      HeightClasses(p, w.S, hcHeight + r.v, w.decoded,
                                    w.newSymbols)))

\* decodeExportFlagsArith: [S, flags]
RECURSIVE ExportRuns(_, _, _, _, _, _, _)
ExportRuns(p, S, total, index, curFlag, exported, flags) ==
    IF index >= total
    THEN IF index # total \/ exported > p.SDNUMEXSYMS
         THEN [S |-> SFailed(S), flags |-> flags]
         ELSE [S |-> S, flags |-> flags]
    ELSE Let(IntDecode(S, "iaex"), LAMBDA r :
             IF r.S.err THEN [S |-> r.S, flags |-> flags]
             ELSE IF ~r.inBand \/ r.v < 0 \/ r.v > total - index
             THEN [S |-> SFailed(r.S), flags |-> flags]
             ELSE ExportRuns(p, r.S, total, index + r.v, ~curFlag,
                             IF curFlag THEN exported + r.v ELSE exported,
                             [i \in 1..total |->
                                 IF i > index /\ i <= index + r.v THEN curFlag
                                 ELSE flags[i]]))

decodeExportFlagsArith(p, S, total) ==
    ExportRuns(p, S, total, 0, FALSE, 0, [i \in 1..total |-> FALSE])

\* buildExportedDictionary: input symbols are exported as clones, new ones
\* as they are.  [heap, dict]
RECURSIVE ExportFrom(_, _, _, _, _, _, _)
ExportFrom(p, hp, newSymbols, exportFlags, i, exported, dict) ==
    IF i >= p.SDNUMINSYMS + p.SDNUMNEWSYMS THEN [heap |-> hp, dict |-> dict]
    ELSE IF ~exportFlags[i + 1] \/ exported >= p.SDNUMEXSYMS
    THEN ExportFrom(p, hp, newSymbols, exportFlags, i + 1, exported, dict)
    ELSE IF i < p.SDNUMINSYMS
    THEN Let(cloneImage(hp, p.SDINSYMS[i + 1]), LAMBDA r :
             ExportFrom(p, r.heap, newSymbols, exportFlags, i + 1, exported + 1,
                        [dict EXCEPT !.symbols = Append(@, r.at)]))
    ELSE ExportFrom(p, hp, newSymbols, exportFlags, i + 1, exported + 1,
                    [dict EXCEPT !.symbols =
                        Append(@, newSymbols[i - p.SDNUMINSYMS + 1])])

\* a buildExportedDictionary that passes over the input symbols
buildExportedDictionaryNewOnly(p, hp, newSymbols, exportFlags) ==
    ExportFrom(p, hp, newSymbols, exportFlags, p.SDNUMINSYMS, 0, NewSymbolDict)

buildExportedDictionary(p, hp, newSymbols, exportFlags) ==
    ExportFrom(p, hp, newSymbols, exportFlags, 0, 0, NewSymbolDict)

\* SDDProc.DecodeArith: [S, dict, oob, export]; oob as HeightClasses
\* answers it, export set when the export run lengths were decoded
SDDProcDecodeArith(p, S) ==
    Let(HeightClasses(p, S, 0, 0, [i \in 1..p.SDNUMNEWSYMS |-> 0]), LAMBDA n :
        IF n.S.err
        THEN [S |-> n.S, dict |-> Nil, oob |-> n.oob, export |-> FALSE]
        ELSE Let(decodeExportFlagsArith(p, n.S, p.SDNUMINSYMS + p.SDNUMNEWSYMS),
                 LAMBDA x :
                 IF x.S.err
                 THEN [S |-> x.S, dict |-> Nil, oob |-> n.oob, export |-> TRUE]
                 ELSE Let(buildExportedDictionary(p, x.S.heap, n.newSymbols,
                                                  x.flags), LAMBDA b :
                          [S |-> [x.S EXCEPT !.heap = b.heap],
                           dict |-> Some(b.dict), oob |-> n.oob,
                           export |-> TRUE])))

(* Symbol dictionary segments (part_009) ------------------------------------*)

JBig2MaxExportSymbols == 65535
JBig2MaxNewSymbols == 65535

refAggContextSize(template) == IF template THEN 1024 ELSE 8192

\* the first segment of segs with the given number, nil if there is none
RECURSIVE SegmentNumbered(_, _, _)
SegmentNumbered(segs, number, i) ==
    IF i > Len(segs) THEN Nil
    ELSE IF segs[i].Number = number THEN Some(segs[i])
    ELSE SegmentNumbered(segs, number, i + 1)

\* findSegmentByNumber: the globals context is searched first
findSegmentByNumber(c, number) ==
    LET own == SegmentNumbered(c.segments, number, 1)
    IN  IF IsNil(c.globalContext) THEN own
        ELSE LET g == SegmentNumbered(Val(c.globalContext).segments, number, 1)
             IN  IF IsNil(g) THEN own ELSE g

\* collectReferencedSymbols: [ok, images, lastDict]
RECURSIVE ReferencedFrom(_, _, _, _, _)
ReferencedFrom(c, refs, i, images, lastDict) ==
    IF i > Len(refs) THEN [ok |-> TRUE, images |-> images, lastDict |-> lastDict]
    ELSE LET referred == findSegmentByNumber(c, refs[i])
         IN  IF IsNil(referred)
             THEN [ok |-> FALSE, images |-> <<>>, lastDict |-> Nil]
             ELSE IF IsNil(Val(referred).SymbolDict)
             THEN ReferencedFrom(c, refs, i + 1, images, lastDict)
             ELSE ReferencedFrom(c, refs, i + 1,
                                 images \o Val(Val(referred).SymbolDict).symbols,
                                 Val(referred).SymbolDict)

collectReferencedSymbols(c, seg) ==
    IF seg.ReferredToSegmentCount = 0
    THEN [ok |-> TRUE, images |-> <<>>, lastDict |-> Nil]
    ELSE ReferencedFrom(c, seg.ReferredToSegmentNumbers, 1, <<>>, Nil)

\* configureSymbolDictHuffman: whether every table selected by the flags is
\* found.  The standard tables are; a table of a tables segment is not, since
\* no segment of this model carries one.
configureSymbolDictHuffman(flags, proc) ==
    /\ Shr(flags, 2) % 4 \in {0, 1}
    /\ Shr(flags, 4) % 4 \in {0, 1}
    /\ Bit(flags, 6) = 0
    /\ (proc.SDREFAGG => Bit(flags, 7) = 0)

\* the pixels of the symbols of a dictionary, for the history
PixelsOf(hp, sd) ==
    IF IsNil(sd) THEN <<>>
    ELSE [i \in 1..Len(Val(sd).symbols) |->
             IF Val(sd).symbols[i] = 0 THEN EmptyImage
             ELSE hp[Val(sd).symbols[i]]]

\* what one parse of a symbol dictionary segment did, for the history
Logged(M, key, found, params, hit, decoded, didStore) ==
    [M EXCEPT !.log = Append(@,
        [key |-> key, global |-> M.c.isGlobal, found |-> found,
         params |-> params, at |-> Offset(M.c), hit |-> hit,
         decoded |-> decoded, stored |-> didStore,
         pixels |-> PixelsOf(M.heap, Val(M.c.currentSegment).SymbolDict)])]

\* the parameters of the segment once the flags are read: [ok, c, proc]
SymbolDictHeader(c, flags) ==
    LET proc0 == [NewSDDProc EXCEPT
                     !.SDHUFF = Bit(flags, 0) = 1,
                     !.SDREFAGG = Bit(flags, 1) = 1,
                     !.SDTEMPLATE = Shr(flags, 10) % 4,
                     !.SDRTEMPLATE = Shr(flags, 12) % 4 # 0]
        no(s) == [ok |-> FALSE, c |-> s, proc |-> proc0]
    IN  Let(IF ~proc0.SDHUFF
            THEN ReadGBAt(c, 0, IF proc0.SDTEMPLATE = 0 THEN 8 ELSE 2, proc0.SDAT)
            ELSE [ok |-> TRUE, v |-> proc0.SDAT, s |-> c], LAMBDA at :
        IF ~at.ok THEN no(at.s) ELSE
        Let(IF proc0.SDREFAGG /\ ~proc0.SDRTEMPLATE
            THEN ReadGBAt(at.s, 0, 4, proc0.SDRAT)
            ELSE [ok |-> TRUE, v |-> proc0.SDRAT, s |-> at.s], LAMBDA rat :
        IF ~rat.ok THEN no(rat.s) ELSE
        Let(ReadUint32(rat.s), LAMBDA numEx :
        IF ~numEx.ok THEN no(numEx.s) ELSE
        Let(ReadUint32(numEx.s), LAMBDA numNew :
        IF ~numNew.ok THEN no(numNew.s)
        ELSE IF U32Gt(numEx.v, U32Of(JBig2MaxExportSymbols))
                \/ U32Gt(numNew.v, U32Of(JBig2MaxNewSymbols))
        THEN no(numNew.s)
        ELSE [ok |-> TRUE, c |-> numNew.s,
              proc |-> [proc0 EXCEPT !.SDAT = at.v, !.SDRAT = rat.v,
                                     !.SDNUMEXSYMS = U32Int(numEx.v),
                                     !.SDNUMNEWSYMS = U32Int(numNew.v)]]))))

\* the contexts the decode starts from: [ok, gb, gr]
SymbolDictContexts(flags, proc, lastDict) ==
    IF BitAnd(flags, 256) # 0
    THEN IF IsNil(lastDict)
         THEN [ok |-> FALSE, gb |-> MakeContexts(0), gr |-> MakeContexts(0)]
         ELSE [ok |-> /\ (~proc.SDHUFF =>
                            Val(lastDict).gbContexts.size
                                = huffContextSize(proc.SDTEMPLATE))
                      /\ (proc.SDREFAGG =>
                            Val(lastDict).grContexts.size
                                = refAggContextSize(proc.SDRTEMPLATE)),
               gb |-> IF ~proc.SDHUFF THEN Val(lastDict).gbContexts
                      ELSE MakeContexts(0),
               gr |-> IF proc.SDREFAGG THEN Val(lastDict).grContexts
                      ELSE MakeContexts(0)]
    ELSE [ok |-> TRUE,
          gb |-> IF ~proc.SDHUFF
                 THEN MakeContexts(huffContextSize(proc.SDTEMPLATE))
                 ELSE MakeContexts(0),
          gr |-> IF proc.SDREFAGG
                 THEN MakeContexts(refAggContextSize(proc.SDRTEMPLATE))
                 ELSE MakeContexts(0)]

\* the dictionary decoded: kept on the segment and, for a globals stream
\* with a key, stored in the cache as a deep copy
SymbolDictDecoded(M, flags, proc, key, found, params, r, gr) ==
    LET c1 == AddOffset(AlignByte([M.c EXCEPT !.byteIx = r.S.s.byteIx,
                                              !.bitIx = r.S.s.bitIx]), 2)
        dict == IF BitAnd(flags, 512) # 0
                THEN [Val(r.dict) EXCEPT
                        !.gbContexts = IF ~proc.SDHUFF THEN r.S.gb ELSE @,
                        !.grContexts = IF proc.SDREFAGG THEN gr ELSE @]
                ELSE Val(r.dict)
        kept == [c1 EXCEPT !.currentSegment =
                    Some([Val(@) EXCEPT !.SymbolDict = Some(dict)])]
    IN  IF M.c.isGlobal /\ key.StreamKey # 0
        THEN Let(DeepCopy(r.S.heap, Some(dict)), LAMBDA cp :
                 Logged(Succeed([M EXCEPT
                     !.c = kept, !.heap = cp.heap,
                     !.cache = StoreSymbolDict(M.c.hasCache, M.cache, key,
                                               cp.dict)]),
                     key, found, params, FALSE, TRUE, M.c.hasCache))
        ELSE Logged(Succeed([M EXCEPT !.c = kept, !.heap = r.S.heap]),
                    key, found, params, FALSE, TRUE, FALSE)

\* the decode of a dictionary that is not served from the cache
SymbolDictDecode(M, flags, proc, key, found, params, lastDict) ==
    Let(SymbolDictContexts(flags, proc, lastDict), LAMBDA cx :
        IF ~cx.ok THEN Fail(M)
        ELSE IF proc.SDHUFF THEN Unmodelled(M)
        ELSE
        Let(NewArithDecoder([buf |-> M.c.buf, byteIx |-> M.c.byteIx,
                             bitIx |-> M.c.bitIx]), LAMBDA a :
        Let(SDDProcDecodeArith(proc,
                [d |-> a.d, s |-> a.s, gb |-> cx.gb, heap |-> M.heap,
                 iadH |-> NewArithIntDecoder, iadW |-> NewArithIntDecoder,
                 iaex |-> NewArithIntDecoder, err |-> FALSE, fault |-> "none"]),
            LAMBDA r :
            IF r.S.fault = "unmodelled" THEN Unmodelled(M)
            ELSE IF r.S.err \/ IsNil(r.dict)
            THEN Fail([M EXCEPT !.c.byteIx = r.S.s.byteIx,
                                !.c.bitIx = r.S.s.bitIx, !.heap = r.S.heap])
            ELSE SymbolDictDecoded(M, flags, proc, key, found, params, r, cx.gr))))

\* the segment once its parameters are read: the cache is tried for a
\* globals stream with a key, and a hit serves a deep copy
SymbolDictBody(M0, flags, proc0) ==
    LET seg == Val(M0.c.currentSegment)
        existing == collectReferencedSymbols(M0.c, seg)
        proc == [proc0 EXCEPT !.SDINSYMS = existing.images,
                              !.SDNUMINSYMS = Len(existing.images)]
        key == CompoundKey(seg.Key, seg.DataOffset)
        found == IndexOfKey(M0.cache, key, 1) # 0
        params == Offset(M0.c)
        M == [M0 EXCEPT !.c.currentSegment =
                 Some([seg EXCEPT !.ResultType = ResultTypeSymbolDict])]
    IN  IF ~existing.ok THEN Fail(M0)
        ELSE IF ~configureSymbolDictHuffman(flags, proc) THEN Fail(M0)
        ELSE Let(IF M.c.isGlobal /\ key.StreamKey # 0
                 THEN LookupSymbolDict(M.c.hasCache, M.cache, key)
                 ELSE [cache |-> M.cache, dict |-> Nil, ok |-> FALSE],
                 LAMBDA hit :
             IF hit.ok /\ ~IsNil(hit.dict)
             THEN Let(DeepCopy(M.heap, hit.dict), LAMBDA cp :
                      Logged(Succeed([M EXCEPT
                          !.cache = hit.cache, !.heap = cp.heap,
                          !.c.currentSegment =
                              Some([Val(@) EXCEPT !.SymbolDict = cp.dict])]),
                          key, found, params, TRUE, FALSE, FALSE))
             ELSE SymbolDictDecode([M EXCEPT !.cache = hit.cache], flags, proc,
                                   key, found, params, existing.lastDict))

parseSymbolDictSegment(M) ==
    Let(ReadUint16(M.c), LAMBDA f :
        IF ~f.ok THEN Fail(M)
        ELSE Let(SymbolDictHeader(f.s, f.v), LAMBDA h :
                 IF ~h.ok THEN Fail([M EXCEPT !.c = h.c])
                 ELSE SymbolDictBody([M EXCEPT !.c = h.c], f.v, h.proc)))

\* the bytes an unknown segment type skips
SkipCount(c, seg) ==
    IF ~U32Small(seg.DataLength) THEN BytesLeft(c)
    ELSE Min(U32Int(seg.DataLength), BytesLeft(c))

\* parseSegmentData on the current segment of M.c
\* a region segment outside a page were it skipped as a segment of unknown
\* type is
OutsidePageSkipped(M) ==
    Succeed([M EXCEPT !.c.byteIx = @ + SkipCount(M.c, Val(M.c.currentSegment)),
                      !.c.outside = @ + 1])

\* a region segment met while no page is active
OutsidePage(M) == Fail([M EXCEPT !.c.outside = @ + 1])

parseSegmentData(M) ==
    LET seg == Val(M.c.currentSegment)
        ty == SegType(seg)
    IN  CASE ty = segmentTypeSymbolDict -> parseSymbolDictSegment(M)
          [] ty = segmentTypePatternDict -> Unmodelled(M)
          [] ty \in {segmentTypeTextRegionImmediate,
                     segmentTypeTextRegionImmediateLossless,
                     segmentTypeTextRegionRefine} ->
               IF ~M.c.inPage THEN OutsidePage(M) ELSE Unmodelled(M)
          [] ty \in {segmentTypeRefinementRegion,
                     segmentTypeRefinementRegionImmediate,
                     segmentTypeRefinementRegionImmediateLossless} ->
               IF ~M.c.inPage THEN OutsidePage(M) ELSE Unmodelled(M)
          [] ty \in {segmentTypeGenericRegion,
                     segmentTypeGenericRegionImmediate,
                     segmentTypeGenericRegionImmediateLossless} ->
               IF ~M.c.inPage THEN OutsidePage(M)
               ELSE parseGenericRegionSegment(M)
          [] ty = segmentTypePageInfo -> parsePageInfoSegment(M)
          [] ty = segmentTypeEndOfPage ->
               Ret([M EXCEPT !.c.inPage = FALSE], DecodeResultEndReached, FALSE)
          [] ty = segmentTypeEndOfStripe ->
               Succeed([M EXCEPT !.c = AddOffsetU32(M.c, seg.DataLength)])
          [] ty = segmentTypeEndOfFile -> Ret(M, DecodeResultEndReached, FALSE)
          [] ty \in {segmentTypeHalftoneRegion,
                     segmentTypeHalftoneRegionImmediate,
                     segmentTypeHalftoneRegionImmediateLossless} ->
               IF ~M.c.inPage THEN OutsidePage(M) ELSE Unmodelled(M)
          [] ty = segmentTypeTables -> Unmodelled(M)
          [] OTHER ->
               Succeed([M EXCEPT !.c.byteIx = @ + SkipCount(M.c, seg)])

\* a PastSegment that moves the stream on by the data length from where the
\* segment parser left it, instead of setting it from the data offset
PastSegmentFromHere(c, seg) ==
    IF seg.DataLength # U32Max
    THEN AddOffsetU32([c EXCEPT !.offset = U32Add(c.offset, seg.DataLength)],
                      seg.DataLength)
    ELSE AddOffset(c, 4)

\* the stream moved past the data of the segment just parsed
PastSegment(c, seg) ==
    IF seg.DataLength # U32Max
    THEN SetOffsetU32([c EXCEPT !.offset = U32Add(c.offset, seg.DataLength)],
                      U32Add(c.offset, seg.DataLength))
    ELSE AddOffset(c, 4)

\* the segment parsed and kept: the pause check between two segments
SegmentKept(M) ==
    IF BytesLeft(M.c) > 0 /\ ~IsNil(M.c.page) THEN AskPause(M)
    ELSE [v |-> FALSE, M |-> M]

\* the segment loop of DecodeSequential
RECURSIVE SegmentLoop(_)
\* the segment loop without its check of the offset overflow, followed up to
\* the first iteration that does not advance
SegmentParsedUnchecked(r) ==
    LET seg == Val(r.c.currentSegment)
        drop(X) == [X EXCEPT !.c.currentSegment = Nil]
    IN  IF r.err THEN drop(r)
        ELSE IF r.res = DecodeResultEndReached THEN Succeed(drop(r))
        ELSE IF r.c.processing = CodecStatusToBeContinued THEN Succeed(r)
        ELSE Let(SegmentKept([r EXCEPT !.c =
                     [PastSegment(r.c, seg) EXCEPT
                         !.segments = Append(@, seg), !.currentSegment = Nil,
                         !.spans = Append(@, [from |-> r.c.iteration.from,
                                              resumed |-> r.c.iteration.resumed,
                                              to |-> Offset(PastSegment(r.c, seg))])]]),
                 LAMBDA ask :
                 IF ask.v
                 THEN Succeed([ask.M EXCEPT !.c.processing = CodecStatusToBeContinued])
                 ELSE IF Offset(ask.M.c) <= r.c.iteration.from THEN Fail(ask.M)
                 ELSE SegmentLoop(ask.M))

SegmentParsed(r) ==
    LET seg == Val(r.c.currentSegment)
        drop(X) == [X EXCEPT !.c.currentSegment = Nil]
    IN  IF r.err THEN drop(r)
        ELSE IF r.res = DecodeResultEndReached THEN Succeed(drop(r))
        ELSE IF r.c.processing = CodecStatusToBeContinued THEN Succeed(r)
        ELSE IF seg.DataLength # U32Max
                /\ U32Gt(seg.DataLength, U32Sub(U32Max, r.c.offset))
        THEN Fail(drop(r))
        ELSE Let(SegmentKept([r EXCEPT !.c =
                     [PastSegment(r.c, seg) EXCEPT
                         !.segments = Append(@, seg), !.currentSegment = Nil,
                         !.spans = Append(@, [from |-> r.c.iteration.from,
                                              resumed |-> r.c.iteration.resumed,
                                              to |-> Offset(PastSegment(r.c, seg))])]]),
                 LAMBDA ask :
                 IF ask.v
                 THEN Succeed([ask.M EXCEPT !.c.processing = CodecStatusToBeContinued])
                 ELSE SegmentLoop(ask.M))

SegmentLoop(M) ==
    IF BytesLeft(M.c) < JBIG2MinSegmentSize THEN Succeed(M)
    ELSE Let(IF ~IsNil(M.c.currentSegment)
             THEN [ok |-> TRUE, c |-> M.c, seg |-> Val(M.c.currentSegment)]
             ELSE parseSegmentHeader(M.c), LAMBDA h :
             IF ~h.ok THEN Fail([M EXCEPT !.c = [h.c EXCEPT !.currentSegment = Nil]])
             ELSE SegmentParsed(parseSegmentData(
                      IF ~IsNil(M.c.currentSegment)
                      THEN [M EXCEPT !.c.iteration =
                               [from |-> Offset(M.c), resumed |-> TRUE]]
                      ELSE [M EXCEPT !.c = [h.c EXCEPT
                                              !.currentSegment = Some(h.seg),
                                              !.offset = U32Of(Offset(h.c)),
                                              !.headers = Append(@, Offset(M.c)),
                                              !.iteration =
                                                  [from |-> Offset(M.c),
                                                   resumed |-> FALSE]]])))

DecodeSequential(M) ==
    IF BytesLeft(M.c) = 0 THEN Ret(M, DecodeResultEndReached, FALSE)
    ELSE SegmentLoop(M)

\* decodeGlobals: the globals context runs on the same cache and indicator
decodeGlobals(M) ==
    IF IsNil(M.c.globalContext) THEN Succeed(M)
    ELSE Let(DecodeSequential([M EXCEPT !.c = Val(M.c.globalContext)]), LAMBDA r :
             IF r.err
             THEN [r EXCEPT !.c = [M.c EXCEPT !.globalContext = Some(r.c),
                                              !.processing = CodecStatusError]]
             ELSE Succeed([r EXCEPT !.c =
                      [M.c EXCEPT !.globalContext = Some(r.c)]]))

\* a Continue that reports to_be_continued where the code reports finished
ContinueNeverFinished(M) ==
    Let(DecodeSequential([M EXCEPT !.c.processing = CodecStatusReady]), LAMBDA r :
        IF r.err THEN [r EXCEPT !.c.processing = CodecStatusError]
        ELSE Succeed([r EXCEPT !.c.processing = CodecStatusToBeContinued]))

\* Context.Continue
Continue(M) ==
    Let(DecodeSequential([M EXCEPT !.c.processing = CodecStatusReady]), LAMBDA r :
        IF r.err THEN [r EXCEPT !.c.processing = CodecStatusError]
        ELSE IF r.c.processing = CodecStatusToBeContinued THEN Succeed(r)
        ELSE Succeed([r EXCEPT !.c.processing = CodecStatusFinished]))

\* Context.GetFirstPage
GetFirstPage(M, buf, width, height, stride) ==
    Let(decodeGlobals(M), LAMBDA g :
        IF g.err THEN g
        ELSE Let(NewImageFromBuffer(width, height, stride, buf), LAMBDA n :
             IF ~n.ok
             THEN Fail([g EXCEPT !.c.pauseStep = 0,
                                 !.c.processing = CodecStatusError])
             ELSE Let(AskPause([g EXCEPT !.c.pauseStep = 0,
                                         !.c.page = Some(n.img),
                                         !.c.bufSpecified = TRUE]), LAMBDA ask :
                  IF ask.v
                  THEN Succeed([ask.M EXCEPT
                                   !.c.pauseStep = 1,
                                   !.c.processing = CodecStatusToBeContinued])
                  ELSE Continue(ask.M))))

\* Decoder.DecodeAll: no pause indicator
DecodeAll(M) ==
    Let(decodeGlobals([M EXCEPT !.pause = Nil]), LAMBDA g :
        IF g.err THEN g ELSE DecodeSequential(g))

----------------------------------------------------------------------------
(* Construction: file_header.go, CreateContext, NewDecoder                 *)

jbig2FileSignature == <<151, 74, 66, 50, 13, 10, 26, 10>>

\* stripJBIG2FileHeader: [ok, data, header]
stripJBIG2FileHeader(data) ==
    LET n == Len(jbig2FileSignature)
        rest(k) == SubSeq(data, k + 1, Len(data))
    IN  IF Len(data) < n THEN [ok |-> TRUE, data |-> data, header |-> Nil]
        ELSE IF SubSeq(data, 1, n) # jbig2FileSignature
        THEN [ok |-> TRUE, data |-> data, header |-> Nil]
        ELSE IF Len(data) < n + 1 THEN [ok |-> FALSE, data |-> <<>>, header |-> Nil]
        ELSE IF Bit(data[n + 1], 1) = 0
        THEN IF Len(data) < n + 5
             THEN [ok |-> FALSE, data |-> <<>>, header |-> Nil]
             ELSE [ok |-> TRUE, data |-> rest(n + 5),
                   header |-> Some([Flags |-> data[n + 1],
                                    NumPages |-> U32(data[n + 2] * 256 + data[n + 3],
                                                     data[n + 4] * 256 + data[n + 5]),
                                    HasNumPage |-> TRUE])]
        ELSE [ok |-> TRUE, data |-> rest(n + 1),
              header |-> Some([Flags |-> data[n + 1], NumPages |-> U32(0, 0),
                               HasNumPage |-> FALSE])]

\* newContext: hasCache tells whether a document context was given
newContext(data, key, hasCache, isGlobal) ==
    [buf |-> data, byteIx |-> 0, bitIx |-> 0, key |-> key,
     globalContext |-> Nil, segments |-> <<>>, pageInfos |-> <<>>,
     page |-> Nil, fileHeader |-> Nil, isGlobal |-> isGlobal,
     inPage |-> FALSE, bufSpecified |-> FALSE, pauseStep |-> 0,
     processing |-> CodecStatusReady, gbContexts |-> MakeContexts(0),
     arithDecoder |-> Nil, grdProc |-> Nil, currentSegment |-> Nil,
     offset |-> U32(0, 0),
     ri |-> [Width |-> 0, Height |-> 0, X |-> 0, Y |-> 0, Flags |-> 0],
     hasCache |-> hasCache,
     \* history: the offsets at which the segment headers were parsed
     headers |-> <<>>,
     \* history: the region segments met while no page was active
     outside |-> 0,
     \* history: where the iteration of the segment loop under way began, and
     \* where each iteration that went round the loop began and ended
     iteration |-> [from |-> 0, resumed |-> FALSE],
     spans |-> <<>>]

\* CreateContext: [ok, c]
CreateContext(globalData, globalKey, srcData, srcKey, hasCache) ==
    LET s == stripJBIG2FileHeader(srcData)
        g == stripJBIG2FileHeader(globalData)
        c0 == [newContext(s.data, srcKey, hasCache, FALSE) EXCEPT
                  !.fileHeader = s.header]
        gc == [newContext(g.data, globalKey, hasCache, TRUE) EXCEPT
                  !.fileHeader = g.header]
    IN  IF ~s.ok THEN [ok |-> FALSE, c |-> c0]
        ELSE IF Len(globalData) = 0 THEN [ok |-> TRUE, c |-> c0]
        ELSE IF ~g.ok THEN [ok |-> FALSE, c |-> c0]
        ELSE [ok |-> TRUE, c |-> [c0 EXCEPT !.globalContext = Some(gc)]]

\* a NewDecoder that takes any source, an empty one too
NewDecoderAnySource(opts) ==
    CreateContext(opts.GlobalData, opts.GlobalKey, opts.SrcData, opts.SrcKey, TRUE)

\* NewDecoder: [ok, c]; the decoder gets a document context of its own
NewDecoder(opts) ==
    IF Len(opts.SrcData) = 0
    THEN [ok |-> FALSE, c |-> newContext(<<>>, 0, TRUE, FALSE)]
    ELSE CreateContext(opts.GlobalData, opts.GlobalKey, opts.SrcData,
                       opts.SrcKey, TRUE)

----------------------------------------------------------------------------
(* Input streams.  A stream is written segment by segment, as an encoder   *)
(* would write it.                                                         *)

Be16(n) == <<n \div 256, n % 256>>
Be32(n) == <<0, 0>> \o Be16(n)
UnknownLength == <<255, 255, 255, 255>>

FileHeaderBytes == jbig2FileSignature \o <<1>> \o Be32(1)

\* a segment header with no referred-to segments and a one-byte page number
SegHeaderBytes(number, type, page, length) ==
    Be32(number) \o <<type, 0, page>> \o length

SegBytes(number, type, page, data) ==
    SegHeaderBytes(number, type, page, Be32(Len(data))) \o data

PageInfoBytes(number, w, h, flags, strip) ==
    SegBytes(number, segmentTypePageInfo, 1,
             Be32(w) \o Be32(h) \o Be32(0) \o Be32(0) \o <<flags>> \o Be16(strip))

RegionInfoBytes(w, h, x, y, op) ==
    Be32(w) \o Be32(h) \o Be32(x) \o Be32(y) \o <<op>>

GenericRegionData(w, h, x, y, op, flags, gbat, coded) ==
    RegionInfoBytes(w, h, x, y, op) \o <<flags>> \o gbat \o coded

EndOfPageBytes(number) == SegBytes(number, segmentTypeEndOfPage, 1, <<>>)
EndOfFileBytes(number) == SegBytes(number, segmentTypeEndOfFile, 0, <<>>)

\* arithmetic-coded payloads and adaptive-template bytes
Coded == <<<<200, 17, 60, 255, 172>>, <<38, 112, 9, 255, 172>>>>
GBAt3 == <<2, 255>>
GBAt3Moved == <<3, 255>>
GBAt0 == <<3, 255, 253, 255, 2, 254, 254, 254>>

\* page info, one generic region of the given type, end of page, end of file;
\* a region of unknown length is followed by its row count
RegionPage(type, op, flags, gbat, coded, length) ==
    FileHeaderBytes
    \o PageInfoBytes(0, 8, 3, 0, 0)
    \o (LET data == GenericRegionData(8, 3, 0, 0, op, flags, gbat, coded)
        IN  IF length THEN SegHeaderBytes(1, type, 1, Be32(Len(data))) \o data
            ELSE SegHeaderBytes(1, type, 1, UnknownLength) \o data \o Be32(3))
    \o EndOfPageBytes(2) \o EndOfFileBytes(3)

\* the inputs of a run: the decoder options, and for a one-region page the
\* parameters the stream was written from
Options(src) ==
    [SrcData |-> src, SrcKey |-> 1, GlobalData |-> <<>>, GlobalKey |-> 0,
     kind |-> "plain", width |-> 0, height |-> 0, type |-> 0, op |-> 0,
     flags |-> 0, gbat |-> <<>>, coded |-> <<>>, length |-> TRUE]

RegionOptions(type, op, flags, gbat, coded, length) ==
    [Options(RegionPage(type, op, flags, gbat, coded, length)) EXCEPT
        !.kind = "region", !.width = 8, !.height = 3, !.type = type,
        !.op = op, !.flags = flags, !.gbat = gbat, !.coded = coded,
        !.length = length]

EmptySource == Options(<<>>)
HeaderOnly == Options(FileHeaderBytes)
\* page information, end of page, end of file: a blank page of w by h
BlankPage(w, h) ==
    [Options(FileHeaderBytes \o PageInfoBytes(0, w, h, 0, 0)
             \o EndOfPageBytes(1) \o EndOfFileBytes(2))
     EXCEPT !.kind = "blank", !.width = w, !.height = h]
\* a generic region ahead of the page information
RegionOutsidePage ==
    Options(FileHeaderBytes
            \o SegBytes(0, segmentTypeGenericRegionImmediate, 1, <<>>)
            \o PageInfoBytes(1, 8, 3, 0, 0)
            \o EndOfPageBytes(2) \o EndOfFileBytes(3))
\* an end-of-stripe segment and a segment of a type the decoder does not know
StripeAndUnknown ==
    Options(FileHeaderBytes \o PageInfoBytes(0, 8, 3, 4, 0)
            \o SegBytes(1, segmentTypeEndOfStripe, 1, Be32(2))
            \o SegBytes(2, 62, 1, <<1, 2, 3>>)
            \o EndOfPageBytes(3) \o EndOfFileBytes(4))

RegionInputs ==
    {RegionOptions(segmentTypeGenericRegionImmediate, op, 6, GBAt3, Coded[2], TRUE)
        : op \in 0..3}
    \cup {RegionOptions(segmentTypeGenericRegionImmediateLossless, 2, 0, GBAt0,
                        Coded[1], TRUE),
          RegionOptions(segmentTypeGenericRegionImmediate, 0, 6, GBAt3Moved,
                        Coded[1], FALSE),
          RegionOptions(segmentTypeGenericRegion, 0, 6, GBAt3, Coded[2], TRUE)}

Inputs ==
    {EmptySource, HeaderOnly, BlankPage(8, 3), BlankPage(33, 2),
     RegionOutsidePage, StripeAndUnknown}
    \cup RegionInputs

\* the caller's page buffers handed to GetFirstPage: one that fits the page
\* and one whose stride is not a multiple of four
Geometries ==
    {[width |-> 8, height |-> 3, stride |-> 4],
     [width |-> 8, height |-> 3, stride |-> 3]}
BufferOf(g) == [i \in 1..(g.stride * g.height) |-> 0]
FittingBuffer == [width |-> 8, height |-> 3, stride |-> 4]

\* a pause indicator: none, or one that asks for a pause at its k-th inquiry.
\* A call returns at the first pause, so later answers are never heard.
PauseAt(k) == [i \in 1..k |-> i = k]
PauseChoices == {Nil} \cup {Some(PauseAt(k)) : k \in 1..MaxPauseCalls}

----------------------------------------------------------------------------
(* The decoder as a state machine: one action per call of the API          *)

C == Val(ctx)

Machine(pause) ==
    [c |-> C, cache |-> cache, heap |-> heap, pause |-> pause,
     res |-> DecodeResultSuccess, err |-> FALSE, fault |-> "none",
     log |-> <<>>]

Last(h) == h[Len(h)]

Crashed == hist # <<>> /\ Last(hist).fault = "panic"

\* the indicator given to a call answered "pause" during the call: left is
\* what the call did not ask
Heard(given, left) ==
    /\ ~IsNil(given)
    /\ \E i \in 1..(Len(Val(given)) - Len(Val(left))) : Val(given)[i]

\* what a call leaves in the history
Entry(op, r, geom, pause) ==
    [op |-> op, err |-> r.err, fault |-> r.fault,
     status |-> r.c.processing,
     seg |-> IF IsNil(r.c.currentSegment) THEN -1
             ELSE SegType(Val(r.c.currentSegment)),
     geom |-> geom,
     heard |-> IF IsNil(r.pause) THEN FALSE ELSE Heard(pause, r.pause),
     key |-> CompoundKey(0, 0)]

\* the pixels last stored under each key, after the stores of a call
RECURSIVE StoredAfter(_, _)
StoredAfter(st, log) ==
    IF log = <<>> THEN st
    ELSE IF ~Head(log).stored THEN StoredAfter(st, Tail(log))
    ELSE StoredAfter([k \in (DOMAIN st) \cup {Head(log).key} |->
                         IF k = Head(log).key THEN Head(log).pixels ELSE st[k]],
                     Tail(log))

\* the keys without key, in order
RECURSIVE Without(_, _)
Without(keys, key) ==
    IF keys = <<>> THEN <<>>
    ELSE IF Head(keys) = key THEN Without(Tail(keys), key)
    ELSE <<Head(keys)>> \o Without(Tail(keys), key)

\* the keys stored or hit, the latest first, after the stores and hits of a
\* call
RECURSIVE TouchedAfter(_, _)
TouchedAfter(keys, log) ==
    IF log = <<>> THEN keys
    ELSE IF ~(Head(log).stored \/ Head(log).hit)
    THEN TouchedAfter(keys, Tail(log))
    ELSE TouchedAfter(<<Head(log).key>> \o Without(keys, Head(log).key),
                      Tail(log))

NoGeometry == [width |-> 0, height |-> 0, stride |-> 0]

Init ==
    /\ input \in Inputs
    /\ created = FALSE
    /\ ctx = Nil
    /\ hist = <<>>
    /\ everErr = FALSE
    /\ cache = <<>>
    /\ heap = <<>>
    /\ stored = <<>>
    /\ touched = <<>>
    /\ cstep = <<>>

Constructed(r) ==
    /\ created' = r.ok
    /\ ctx' = IF r.ok THEN Some(r.c) ELSE Nil
    /\ hist' = <<[op |-> "NewDecoder", err |-> ~r.ok, fault |-> "none",
                  status |-> CodecStatusReady, seg |-> -1,
                  geom |-> NoGeometry, heard |-> FALSE,
                  key |-> CompoundKey(0, 0)]>>
    /\ UNCHANGED <<input, everErr, cache, heap, stored, touched, cstep>>

CallNewDecoder ==
    /\ ~created /\ hist = <<>>
    /\ Constructed(NewDecoder(input))

Returned(op, r, geom, pause) ==
    /\ ctx' = Some(r.c)
    /\ cache' = r.cache
    /\ heap' = r.heap
    /\ hist' = Append(hist, Entry(op, r, geom, pause))
    /\ everErr' = (everErr \/ r.err)
    /\ cstep' = r.log
    /\ stored' = StoredAfter(stored, r.log)
    /\ touched' = TouchedAfter(touched, r.log)
    /\ UNCHANGED <<input, created>>

CanCall == created /\ ~Crashed /\ Len(hist) <= MaxCalls

CallDecodeAll ==
    /\ CanCall
    /\ Returned("DecodeAll", DecodeAll(Machine(Nil)), NoGeometry, Nil)

CallGetFirstPage ==
    /\ CanCall
    /\ \E pause \in PauseChoices, g \in Geometries :
          Returned("GetFirstPage",
                   GetFirstPage(Machine(pause), BufferOf(g), g.width, g.height,
                                g.stride), g, pause)

CallContinue ==
    /\ CanCall
    /\ \E pause \in PauseChoices :
          Returned("Continue", Continue(Machine(pause)), NoGeometry, pause)

Next == CallNewDecoder \/ CallDecodeAll \/ CallGetFirstPage \/ CallContinue

Spec == Init /\ [][Next]_vars

\* every input stays inside the decoding procedures this model covers
Covered == \A i \in 1..Len(hist) : hist[i].fault # "unmodelled"

----------------------------------------------------------------------------
(* The document as a state machine: contexts created one after the other   *)
(* on the symbol-dictionary cache of one document context, each decoded by *)
(* GetFirstPage, and a caller that writes into the dictionaries the        *)
(* contexts hand out.                                                      *)

\* arithmetic-coded symbol dictionaries of one symbol each: a 3 by 1 bitmap
\* 110 and a 2 by 1 bitmap 10
CodedSymbols == <<<<145, 87, 96, 255, 172>>, <<146, 229, 23, 255, 172>>>>

\* a symbol dictionary segment: template 3 with its adaptive pixel at
\* (3, -1), one new symbol, one exported symbol
SymbolDictBytes(number, coded) ==
    SegBytes(number, segmentTypeSymbolDict, 0,
             Be16(3072) \o GBAt3Moved \o Be32(1) \o Be32(1) \o coded)

OneDict == SymbolDictBytes(0, CodedSymbols[1])
TwoDicts == SymbolDictBytes(0, CodedSymbols[1]) \o SymbolDictBytes(1, CodedSymbols[2])

\* a page stream without segments decoded with a globals stream under a key
WithGlobals(globals, key) ==
    [Options(FileHeaderBytes) EXCEPT !.kind = "globals", !.GlobalData = globals,
                                     !.GlobalKey = key]

\* a page stream that carries its symbol dictionary itself
DictInPage(key) ==
    [Options(FileHeaderBytes \o OneDict) EXCEPT !.kind = "page", !.SrcKey = key]

CacheInputs ==
    {WithGlobals(OneDict, 5), WithGlobals(TwoDicts, 6), WithGlobals(OneDict, 6),
     WithGlobals(OneDict, 0), DictInPage(5)}

\* NewDocumentContext: an empty cache, no context yet
InitCache ==
    /\ input = EmptySource
    /\ created = FALSE
    /\ ctx = Nil
    /\ hist = <<>>
    /\ everErr = FALSE
    /\ cache = <<>>
    /\ heap = <<>>
    /\ stored = <<>>
    /\ touched = <<>>
    /\ cstep = <<>>

CanStep == Len(hist) < MaxSteps

\* CreateContext on the document context; the caller lets go of the context
\* it had
CallCreateContext ==
    /\ CanStep
    /\ \E opts \in CacheInputs :
          Let(CreateContext(opts.GlobalData, opts.GlobalKey, opts.SrcData,
                            opts.SrcKey, TRUE), LAMBDA r :
              /\ r.ok
              /\ input' = opts
              /\ created' = TRUE
              /\ ctx' = Some(r.c)
              /\ hist' = Append(hist, [op |-> "CreateContext", err |-> FALSE,
                                       fault |-> "none",
                                       status |-> r.c.processing, seg |-> -1,
                                       geom |-> NoGeometry, heard |-> FALSE,
                                       key |-> CompoundKey(0, 0)])
              /\ UNCHANGED <<everErr, cache, heap, stored, touched, cstep>>)

\* Context.GetFirstPage on the context of the document, once per context
CallContextFirstPage ==
    /\ CanStep /\ created /\ Last(hist).op = "CreateContext"
    /\ Returned("GetFirstPage",
                GetFirstPage(Machine(Nil), BufferOf(FittingBuffer),
                             FittingBuffer.width, FittingBuffer.height,
                             FittingBuffer.stride), FittingBuffer, Nil)

\* the segments a caller reaches from the context: Segments() of the context
\* and of its globals context
Reachable ==
    IF IsNil(ctx) THEN <<>>
    ELSE C.segments \o (IF IsNil(C.globalContext) THEN <<>>
                        ELSE Val(C.globalContext).segments)

\* the caller flips the pixel (0, 0) of a symbol of a segment's dictionary
CallSetPixel ==
    /\ CanStep /\ created
    /\ \E i \in 1..Len(Reachable) :
          /\ ~IsNil(Reachable[i].SymbolDict)
          /\ \E j \in 1..Len(Val(Reachable[i].SymbolDict).symbols) :
                LET a == Val(Reachable[i].SymbolDict).symbols[j]
                IN  /\ a # 0
                    /\ heap' = [heap EXCEPT ![a] =
                                   SetPixel(@, 0, 0, 1 - GetPixel(@, 0, 0))]
                    /\ hist' = Append(hist,
                           [op |-> "SetPixel", err |-> FALSE, fault |-> "none",
                            status |-> C.processing, seg |-> -1,
                            geom |-> NoGeometry, heard |-> FALSE,
                            key |-> CompoundKey(Reachable[i].Key,
                                                Reachable[i].DataOffset)])
    /\ UNCHANGED <<input, created, ctx, everErr, cache, stored, touched, cstep>>

NextCache == CallCreateContext \/ CallContextFirstPage \/ CallSetPixel

SpecCache == InitCache /\ [][NextCache]_vars

----------------------------------------------------------------------------
(* The decoder on pages that grow and on segments the dispatcher skips:    *)
(* the same calls as above, on other streams.                              *)

\* a page information segment with the width and the height given as bytes
PageInfoFields(number, w, h, flags, strip) ==
    SegBytes(number, segmentTypePageInfo, 1,
             w \o h \o Be32(0) \o Be32(0) \o <<flags>> \o Be16(strip))

\* an immediate generic region of 8 by 3 at (x, y): template 3, the second
\* payload
RegionAt(number, x, y, op) ==
    SegBytes(number, segmentTypeGenericRegionImmediate, 1,
             GenericRegionData(8, 3, x, y, op, 6, GBAt3, Coded[2]))

\* a page of width 8 with a region on its rows 0 to 2 and a region that
\* reaches down to row 4, shifted 4 columns to the right
TwoRegions(kind, h, flags, strip, op) ==
    [Options(FileHeaderBytes \o PageInfoFields(0, Be32(8), h, flags, strip)
             \o RegionAt(1, 0, 0, op) \o RegionAt(2, 4, 2, op)
             \o EndOfPageBytes(3) \o EndOfFileBytes(4))
     EXCEPT !.kind = kind, !.width = 8, !.height = 3, !.op = op, !.flags = flags]

StripeFlag == 32768

GrowingPages ==
    {TwoRegions("striped", UnknownLength, 0, 3, 0),
     TwoRegions("striped", UnknownLength, 4, 3, 1),
     TwoRegions("striped", Be32(3), 0, StripeFlag, 0),
     TwoRegions("striped", Be32(3), 4, StripeFlag + 3, 2),
     TwoRegions("fixed", Be32(3), 0, 0, 0)}

\* where the first end-of-page segment of a buffer begins
EndOfPageAt(buf) ==
    LET found(i) == \E n \in 0..4 :
                       /\ i + Len(EndOfPageBytes(n)) <= Len(buf)
                       /\ SubSeq(buf, i + 1, i + Len(EndOfPageBytes(n)))
                             = EndOfPageBytes(n)
    IN  CHOOSE i \in 0..Len(buf) : found(i) /\ \A j \in 0..(i - 1) : ~found(j)

\* a page of 8 by 3 and one segment of unknown length ahead of the end of the
\* page: the segment header and what follows it up to the end-of-page segment
OpenEnded(type, data) ==
    [Options(FileHeaderBytes \o PageInfoBytes(0, 8, 3, 0, 0)
             \o SegHeaderBytes(1, type, 1, UnknownLength) \o data
             \o EndOfPageBytes(2) \o EndOfFileBytes(3))
     EXCEPT !.kind = "open", !.width = 8, !.height = 3, !.type = type,
            !.length = FALSE]

RegionBody == GenericRegionData(8, 3, 0, 0, 0, 6, GBAt3, Coded[2])

\* a type the dispatcher does not know (62 is the extension segment)
UnknownType == 62

OpenEndedInputs ==
    {OpenEnded(segmentTypeGenericRegionImmediate, RegionBody \o Be32(3)),
     OpenEnded(segmentTypeGenericRegionImmediate, RegionBody \o <<0, 0>> \o Be32(3)),
     OpenEnded(UnknownType, <<1, 2, 3>>),
     OpenEnded(segmentTypeEndOfStripe, Be32(3))}

\* a page of 8 by 3 and one segment of an unknown type: its declared length,
\* the bytes that follow its header, and the rest of the stream
Skipped(length, data) ==
    [Options(FileHeaderBytes \o PageInfoBytes(0, 8, 3, 0, 0)
             \o SegHeaderBytes(1, UnknownType, 1, length) \o data
             \o EndOfPageBytes(2) \o EndOfFileBytes(3))
     EXCEPT !.kind = "skipped", !.width = 8, !.height = 3, !.type = UnknownType,
            !.coded = length, !.gbat = data]

SkippedInputs ==
    {Skipped(Be32(3), <<1, 2, 3>>),
     Skipped(Be32(0), <<>>),
     Skipped(Be32(40), <<1, 2, 3>>),
     Skipped(<<255, 255, 255, 254>>, <<1, 2, 3>>),
     Skipped(<<255, 255, 255, 200>>, <<1, 2, 3>>),
     Skipped(<<255, 255, 255, 245>>, <<1, 2, 3>>)}

\* a page whose declared width is one more than JBig2MaxImageSize
WidePage ==
    [Options(FileHeaderBytes
             \o PageInfoFields(0, <<0, 1, 0, 0>>, Be32(1), 0, 0)
             \o EndOfPageBytes(1) \o EndOfFileBytes(2))
     EXCEPT !.kind = "wide", !.width = 65536, !.height = 1]

PageInputs ==
    GrowingPages \cup OpenEndedInputs \cup SkippedInputs
    \cup {WidePage, StripeAndUnknown, BlankPage(8, 3)}

InitPage ==
    /\ input \in PageInputs
    /\ created = FALSE
    /\ ctx = Nil
    /\ hist = <<>>
    /\ everErr = FALSE
    /\ cache = <<>>
    /\ heap = <<>>
    /\ stored = <<>>
    /\ touched = <<>>
    /\ cstep = <<>>

SpecPage == InitPage /\ [][Next]_vars

----------------------------------------------------------------------------
(* Properties of the decode calls                                          *)

\* some decode call has returned
Called == Len(hist) >= 2

\* the decoder as NewDecoder leaves it, before any decode call
FreshMachine ==
    [c |-> NewDecoder(input).c, cache |-> <<>>, heap |-> <<>>, pause |-> Nil,
     res |-> DecodeResultSuccess, err |-> FALSE, fault |-> "none",
     log |-> <<>>]

FittingGeometry == [width |-> 8, height |-> 3, stride |-> 4]

ImmediateGenericTypes ==
    {segmentTypeGenericRegionImmediate, segmentTypeGenericRegionImmediateLossless}

AllZero(img) ==
    \A x \in 0..(img.width - 1), y \in 0..(img.height - 1) : GetPixel(img, x, y) = 0

\* C1: once a decode call has returned an error the status is error and stays
\* error, and every later decode_all or continue call fails, parses no further
\* segment, leaves the stream where it was and leaves the page image alone.
C1_ErrorIsTerminal ==
    [][/\ everErr' => Val(ctx').processing = CodecStatusError
       /\ (everErr /\ hist' # hist /\ Last(hist').op \in {"DecodeAll", "Continue"})
             => /\ Last(hist').err
                /\ Val(ctx').segments = C.segments
                /\ Val(ctx').byteIx = C.byteIx
                /\ Val(ctx').page = C.page]_vars

\* the call entry i of the history paused after a row of an immediate generic
\* region
RowPaused(e) ==
    ~e.err /\ e.status = CodecStatusToBeContinued /\ e.seg \in ImmediateGenericTypes

\* first_page on a fitting buffer and then continue calls, every call but the
\* last pausing after a row of the region, the last one finishing
PausedRun ==
    /\ input.kind = "region" /\ input.type \in ImmediateGenericTypes
    /\ Len(hist) >= 3
    /\ hist[2].op = "GetFirstPage" /\ hist[2].geom = FittingGeometry
    /\ \A i \in 3..Len(hist) : hist[i].op = "Continue"
    /\ \A i \in 2..(Len(hist) - 1) : RowPaused(hist[i])
    /\ ~Last(hist).err /\ Last(hist).status = CodecStatusFinished

\* the same stream decoded by one first_page call with no pause indicator
Unpaused ==
    GetFirstPage(FreshMachine, BufferOf(FittingGeometry), FittingGeometry.width,
                 FittingGeometry.height, FittingGeometry.stride)

\* C2: for an immediate generic region on the arithmetic path, whatever rows
\* the pauses fell after and whatever the combination operator, the page image
\* and the stream offset after the last continue call are those of the decode
\* of the same stream without any pause.
C2_PausedEqualsUnpaused ==
    PausedRun => /\ C.page = Unpaused.c.page
                 /\ Offset(C) = Offset(Unpaused.c)

\* C7: for file header, page information of w by h (flags 0, no striping), end
\* of page and end of file, decode_all succeeds, the status is then finished
\* and the page image is w by h with every pixel 0.
C7_BlankPageFinished ==
    (input.kind = "blank" /\ Len(hist) = 2 /\ Last(hist).op = "DecodeAll")
    => /\ ~Last(hist).err
       /\ C.processing = CodecStatusFinished
       /\ HasPage(C)
       /\ Val(C.page).width = input.width
       /\ Val(C.page).height = input.height
       /\ AllZero(Val(C.page))

EmptyStream == Len(input.SrcData) = 0

\* a stream with nothing after its file header
NoSegments == input.SrcData = FileHeaderBytes

\* C8 as stated: decoding an empty stream ends with status finished, an empty
\* segment list and no page image.
C8_EmptyStreamFinishes ==
    (EmptyStream /\ hist # <<>>)
    => /\ created
       /\ Called => /\ C.processing = CodecStatusFinished
                    /\ C.segments = <<>>
                    /\ IsNil(C.page)

\* C8 amended: no decoder is constructed over an empty source, the
\* construction answers an error and nothing is decoded; a stream with nothing
\* after its file header, decoded by one continue call, ends with status
\* finished, an empty segment list and no page image.
C8_EmptySourceRejected ==
    /\ (EmptyStream /\ hist # <<>>)
       => ~created /\ ctx = Nil /\ Len(hist) = 1 /\ Last(hist).err
    /\ (NoSegments /\ Len(hist) = 2 /\ Last(hist).op = "Continue")
       => /\ ~Last(hist).err
          /\ C.processing = CodecStatusFinished
          /\ C.segments = <<>>
          /\ IsNil(C.page)

C8_Witness == EmptyStream /\ hist # <<>> /\ ~created

\* the last decode call answered to_be_continued.  DecodeAll has no pause
\* indicator and assigns no status: the status read after it is the one an
\* earlier call left.
Paused ==
    /\ Called /\ ~Last(hist).err
    /\ Last(hist).op \in {"GetFirstPage", "Continue"}
    /\ C.processing = CodecStatusToBeContinued

\* the pause fell after a completed row of a generic region on the arithmetic
\* path
RowPause ==
    /\ ~IsNil(C.currentSegment)
    /\ SegType(Val(C.currentSegment)) \in
          ImmediateGenericTypes \cup {segmentTypeGenericRegion}
    /\ ~IsNil(C.grdProc)
    /\ ~Val(C.grdProc).MMR
    /\ Val(C.grdProc).progressiveStatus = CodecStatusToBeContinued
    /\ Val(C.grdProc).loopIndex >= 1
    /\ ~IsNil(Val(C.currentSegment).Image)

\* the pause fell in GetFirstPage, before the call looked at any segment
StartPause ==
    /\ Last(hist).op = "GetFirstPage"
    /\ C.pauseStep = 1

\* the pause fell between two segments: one is kept, more bytes follow, no
\* segment is open
SegmentPause ==
    /\ ~StartPause
    /\ IsNil(C.currentSegment) /\ IsNil(C.grdProc)
    /\ C.segments # <<>>
    /\ BytesLeft(C) > 0
    /\ ~IsNil(C.page)

OneRun ==
    /\ Called /\ ~everErr
    /\ hist[2].op = "GetFirstPage" => hist[2].geom = FittingGeometry
    /\ \A i \in 3..Len(hist) : hist[i].op # "GetFirstPage"

\* the bitmap of the region of the input: what the decoder keeps in the
\* segment when the same region is sent as the intermediate variant
RegionBitmap ==
    LET same == RegionOptions(segmentTypeGenericRegion, input.op, input.flags,
                              input.gbat, input.coded, input.length)
        r == DecodeAll([FreshMachine EXCEPT !.c = NewDecoder(same).c])
    IN  Val(r.c.segments[2].Image)

\* the blank page with the region bitmap composed onto it
RegionOnBlankPage ==
    composeToInternal(RegionBitmap, NewImage(input.width, input.height), 0, 0,
                      input.op, Rect(0, 0, input.width, input.height)).dst

\* C10: after every successful decode of a region segment that is not the
\* intermediate variant, the region has been composed onto the page image and
\* the image slot of the segment is empty.
C10_ComposedAndSlotEmpty ==
    (input.kind = "region" /\ OneRun)
    => \A i \in 1..Len(C.segments) :
          SegType(C.segments[i]) \in ImmediateGenericTypes
          => /\ IsNil(C.segments[i].Image)
             /\ HasPage(C)
             /\ Data(Val(C.page)) = Data(RegionOnBlankPage)

----------------------------------------------------------------------------
(* Properties of the symbol-dictionary cache                               *)

\* the addresses of the bitmaps of a dictionary
Addresses(sd) ==
    IF IsNil(sd) THEN {}
    ELSE {Val(sd).symbols[j] : j \in 1..Len(Val(sd).symbols)} \ {0}

KeysOf(entries) == [i \in 1..Len(entries) |-> entries[i].Key]

\* the last call decoded a context and served the dictionary number n of its
\* log from the cache
Hit(n) == Last(hist).op = "GetFirstPage" /\ cstep[n].hit

\* C3: a dictionary attached to a segment, decoded and stored or served from
\* the cache, shares no bitmap with a cached entry; whatever the caller
\* writes into the dictionaries of the segments, every cached dictionary
\* keeps the pixels stored under its key, and every cache hit hands out
\* those pixels.
C3_NoSharedBitmap ==
    /\ \A i \in 1..Len(cache), k \in 1..Len(Reachable) :
          Addresses(cache[i].Dict) \cap Addresses(Reachable[k].SymbolDict) = {}
    /\ \A i \in 1..Len(cache) :
          /\ cache[i].Key \in DOMAIN stored
          /\ PixelsOf(heap, cache[i].Dict) = stored[cache[i].Key]
    /\ \A n \in 1..Len(cstep) :
          cstep[n].hit => /\ cstep[n].key \in DOMAIN stored
                          /\ cstep[n].pixels = stored[cstep[n].key]

\* a hit for a key after the caller wrote into a segment's dictionary that
\* was decoded or served under that key
C3_Witness ==
    /\ hist # <<>>
    /\ \E n \in 1..Len(cstep) :
          /\ Hit(n)
          /\ \E i \in 1..Len(hist) :
                hist[i].op = "SetPixel" /\ hist[i].key = cstep[n].key

\* C4: the cache lists its keys most recently used first: its keys are the
\* keys stored or hit, the latest first, cut after the capacity of 2, so a
\* key stored or hit is at the front and the key a store pushes out is the
\* one stored or hit least recently.
C4_MostRecentFirst ==
    KeysOf(cache) =
        SubSeq(touched, 1, Min(Len(touched), symbolDictCacheMaxSize))

\* a hit after a store has pushed a key out of the cache
C4_Witness ==
    /\ hist # <<>>
    /\ Len(touched) > symbolDictCacheMaxSize
    /\ \E n \in 1..Len(cstep) : Hit(n) /\ cache[1].Key = cstep[n].key

\* C5: the cache holds at most 2 entries and no two of them have the same
\* (stream key, data offset) key.
C5_BoundedDistinct ==
    /\ Len(cache) <= symbolDictCacheMaxSize
    /\ \A i, j \in 1..Len(cache) : cache[i].Key = cache[j].Key => i = j

\* a store into a full cache
C5_Witness ==
    /\ Len(cache) = symbolDictCacheMaxSize
    /\ Len(touched) > symbolDictCacheMaxSize
    /\ cstep # <<>>
    /\ cstep[Len(cstep)].stored
    /\ cache[1].Key = cstep[Len(cstep)].key

\* C6 as stated: whenever the key of a symbol dictionary segment is in the
\* cache, the dictionary is not decoded again and the stream is just past
\* the parameter bytes when the parse of the segment returns.
C6_CachedNeverDecoded ==
    \A n \in 1..Len(cstep) :
        cstep[n].found => ~cstep[n].decoded /\ cstep[n].at = cstep[n].params

\* C6 amended: whenever the key of a symbol dictionary segment of a globals
\* stream with a non-zero stream key is in the cache, the segment gets the
\* cached dictionary without a decode and the stream is just past the
\* parameter bytes when the parse returns; a segment of a page stream is
\* decoded whatever the cache holds.
C6_GlobalsCachedNotDecoded ==
    \A n \in 1..Len(cstep) :
        /\ (cstep[n].found /\ cstep[n].global /\ cstep[n].key.StreamKey # 0)
              => /\ cstep[n].hit /\ ~cstep[n].decoded
                 /\ cstep[n].at = cstep[n].params
        /\ ~cstep[n].global => cstep[n].decoded /\ ~cstep[n].hit

\* a globals segment whose key is in the cache has been parsed
C6_Witness ==
    \E n \in 1..Len(cstep) :
        cstep[n].found /\ cstep[n].global /\ cstep[n].hit
        /\ cstep[n].at = cstep[n].params

----------------------------------------------------------------------------
(* Properties of the page image and of the segment dispatcher              *)

NextC == Val(ctx')

\* the step is a continue or decode_all call that returned no error, kept
\* one more segment and left none open; the segment is an immediate generic
\* region, composed onto the page the step began with, and c.ri is its region
\* information
ComposedOneRegion ==
    /\ hist' # hist /\ Len(hist) >= 2
    /\ Last(hist').op \in {"Continue", "DecodeAll"} /\ ~Last(hist').err
    /\ HasPage(C) /\ HasPage(NextC)
    /\ Len(NextC.segments) = Len(C.segments) + 1
    /\ IsNil(NextC.currentSegment)
    /\ SegType(Last(NextC.segments)) \in ImmediateGenericTypes

InRegion(ri, x, y) ==
    x >= ri.X /\ x < ri.X + ri.Width /\ y >= ri.Y /\ y < ri.Y + ri.Height

DefaultPixel(c) == IF Val(latestPageInfo(c)).DefaultPixelValue THEN 1 ELSE 0

\* the region of the step reaches below the page the step began with
ReachesBelow == NextC.ri.Y + NextC.ri.Height > Val(C.page).height

\* the page has grown down to the bottom edge of the region, around the
\* region its old rows are as they were and its new rows hold the default pixel
GrownAround(old, new, ri, default) ==
    /\ new.height >= ri.Y + ri.Height
    /\ new.width = old.width
    /\ \A x \in 0..(new.width - 1), y \in 0..(new.height - 1) :
          ~InRegion(ri, x, y)
          => GetPixel(new, x, y) = IF y < old.height THEN GetPixel(old, x, y)
                                   ELSE default

\* C11 as stated: when a region whose bottom edge lies below the current page
\* height is composed onto a striped page, the page grows to at least that
\* bottom edge, the old rows keep their pixels outside the region and the new
\* rows hold the default pixel outside the region.
C11_StripedPageGrows ==
    [][(ComposedOneRegion /\ ReachesBelow
        /\ ShouldTreatAsStriped(Val(latestPageInfo(C))))
       => GrownAround(Val(C.page), Val(NextC.page), NextC.ri, DefaultPixel(C))]_vars

\* the page grown down to the bottom edge of the region is no larger than
\* Expand lets an image be
Expandable ==
    NextC.ri.Y + NextC.ri.Height <= maxImageBytes \div Val(C.page).stride

\* C11 amended: the page grows, as stated, when it is striped, the decoder
\* allocated its image and the grown image is within the size Expand allows;
\* a page image built over the buffer of first_page keeps its height, the
\* region is clipped to it, and the pixels outside the region stay as they
\* were.
C11_OwnedStripedPageGrows ==
    [][(ComposedOneRegion /\ ReachesBelow /\ Expandable
        /\ ShouldTreatAsStriped(Val(latestPageInfo(C))))
       => IF ~C.bufSpecified
          THEN GrownAround(Val(C.page), Val(NextC.page), NextC.ri, DefaultPixel(C))
          ELSE /\ Val(NextC.page).height = Val(C.page).height
               /\ Val(NextC.page).width = Val(C.page).width
               /\ ~Val(NextC.page).owned
               /\ \A x \in 0..(Val(C.page).width - 1),
                     y \in 0..(Val(C.page).height - 1) :
                     ~InRegion(NextC.ri, x, y)
                     => GetPixel(Val(NextC.page), x, y) = GetPixel(Val(C.page), x, y)]_vars

\* a continue call after a pause has made a striped page the decoder
\* allocated grow below its first height, and one of the old rows holds,
\* outside the last region, a pixel that is not the default one
C11_Witness ==
    /\ input.kind = "striped" /\ Len(hist) >= 3 /\ ~everErr
    /\ Last(hist).op = "Continue"
    /\ hist[Len(hist) - 1].status = CodecStatusToBeContinued
    /\ HasPage(C) /\ ~C.bufSpecified
    /\ Val(C.page).height = C.ri.Y + C.ri.Height
    /\ Val(C.page).height > input.height
    /\ \E x \in 0..(Val(C.page).width - 1), y \in 0..(input.height - 1) :
          ~InRegion(C.ri, x, y) /\ GetPixel(Val(C.page), x, y) # DefaultPixel(C)

\* the segment of unknown length of the stream, the second segment, has been
\* processed and kept
OpenEndedKept ==
    /\ input.kind = "open" /\ Called
    /\ Len(C.segments) >= 2 /\ C.segments[2].DataLength = U32Max

\* C12: a segment whose data length is 0xFFFFFFFF ends exactly at the next
\* end-of-page marker: once the segment is processed, the next segment header
\* is parsed, and it is parsed starting at that marker.
C12_UnknownLengthEndsAtMarker ==
    OpenEndedKept
    => /\ Len(C.headers) >= 3 => C.headers[3] = EndOfPageAt(C.buf)
       /\ (~Last(hist).err /\ C.processing # CodecStatusToBeContinued)
             => Len(C.headers) >= 3

\* the header of the segment of unknown type of the stream, the second
\* segment, has been parsed
UnknownTypeMet == input.kind = "skipped" /\ Called /\ Len(C.headers) >= 2

\* the declared data length of that segment, and where its data begin
DeclaredLength ==
    U32(input.coded[1] * 256 + input.coded[2], input.coded[3] * 256 + input.coded[4])
DataBegin == C.headers[2] + Len(SegHeaderBytes(1, UnknownType, 1, Be32(0)))

\* where the stream is once the context has kept the segment, as far as the
\* state shows it: the offset of the next header, or the stream offset when
\* no other header has been parsed
AfterUnknown == IF Len(C.headers) >= 3 THEN C.headers[3] ELSE Offset(C)

\* C13 as stated: a segment of unknown type never makes the decode fail,
\* exactly its data_length bytes are skipped, and the next segment header is
\* parsed at the byte right after them.
C13_UnknownTypeSkipped ==
    UnknownTypeMet
    => /\ Len(C.segments) >= 2
       /\ U32Small(DeclaredLength)
       /\ AfterUnknown = DataBegin + U32Int(DeclaredLength)

\* the data length is not 0xFFFFFFFF and the data offset plus the data length
\* passes 2^32 - 1
OffsetOverflow ==
    /\ DeclaredLength # U32Max
    /\ U32Gt(DeclaredLength, U32Sub(U32Max, U32Of(DataBegin)))

\* C13 amended: a segment of unknown type whose data offset plus data length
\* passes 2^32 - 1 is never kept, and the call that closes it fails;
\* any other is never dropped, and once the context has kept it the stream has
\* skipped its data_length bytes, or every byte left when fewer are left, and
\* the next segment header, if one is parsed, starts at the byte right after
\* them.
C13_UnknownTypeSkippedInStream ==
    UnknownTypeMet
    => /\ OffsetOverflow
             => Len(C.segments) < 2 /\ (IsNil(C.currentSegment) => everErr)
       /\ ~OffsetOverflow
             => /\ Len(C.segments) >= 2 \/ ~IsNil(C.currentSegment)
                /\ Len(C.segments) >= 2
                      => AfterUnknown =
                            IF U32Small(DeclaredLength)
                            THEN Min(DataBegin + U32Int(DeclaredLength), Len(C.buf))
                            ELSE Len(C.buf)

\* the segment of unknown type has been skipped and the header after its
\* three data bytes parsed
C13_Witness ==
    /\ UnknownTypeMet /\ ~everErr
    /\ DeclaredLength = U32Of(3)
    /\ Len(C.segments) >= 2 /\ Len(C.headers) >= 3
    /\ C.headers[3] = DataBegin + 3

(***************************************************************************)
(* The segment header parser on its own: parseSegmentHeader applied to    *)
(* one segment header whose count byte and the three bytes after it vary. *)
(***************************************************************************)

HeaderNumber == 200       \* the segment number of the header
TrailingBytes == 70       \* bytes that follow the four varied bytes

\* a header of segment HeaderNumber: the flags byte, the count byte c0, the
\* bytes b1 b2 b3, and bytes of value 1 for what the parser reads after
HeaderWith(c0, b1, b2, b3) ==
    [Options(Be32(HeaderNumber) \o <<UnknownType, c0, b1, b2, b3>>
             \o [i \in 1..TrailingBytes |-> 1])
        EXCEPT !.kind = "header"]

HeaderInputs ==
    {HeaderWith(k * 32 + j, b1, 0, b3) :
        k \in 0..7, j \in {0, 31}, b1 \in {0, 1}, b3 \in {0, 3, 64, 65}}

InitHeader ==
    /\ input \in HeaderInputs
    /\ created = FALSE
    /\ ctx = Nil
    /\ hist = <<>>
    /\ everErr = FALSE
    /\ cache = <<>>
    /\ heap = <<>>
    /\ stored = <<>>
    /\ touched = <<>>
    /\ cstep = <<>>

\* parseSegmentHeader on a fresh context over the header bytes
CallParseSegmentHeader ==
    /\ hist = <<>>
    /\ Let(parseSegmentHeader(newContext(input.SrcData, input.SrcKey, FALSE, FALSE)),
           LAMBDA r :
           /\ hist' = <<[op |-> "parseSegmentHeader", err |-> ~r.ok,
                         seg |-> r.seg, offset |-> Offset(r.c)]>>
           /\ everErr' = ~r.ok)
    /\ UNCHANGED <<input, created, ctx, cache, heap, stored, touched, cstep>>

NextHeader == CallParseSegmentHeader

SpecHeader == InitHeader /\ [][NextHeader]_vars

HeaderParsed == input.kind = "header" /\ hist # <<>>

\* the count byte of the header, the value of its top 3 bits, and the 32-bit
\* number that starts at the count byte with its top 3 bits masked off
CountByte == input.SrcData[6]
CountBits == CountByte \div 32
MaskedCount ==
    (((CountByte % 32) * 256 + input.SrcData[7]) * 256 + input.SrcData[8]) * 256
        + input.SrcData[9]

\* the header is parsed with the count n, or rejected when n is above 64
CountIs(n) ==
    IF n > JBig2MaxReferredSegmentCount THEN hist[1].err
    ELSE ~hist[1].err /\ hist[1].seg.ReferredToSegmentCount = n

\* C14 as stated: the referred-segment count is the value of the top 3 bits
\* of the count byte when that value is 0 to 4; for every other value the
\* count is read as a 32-bit number with its top 3 bits masked off; a count
\* above 64 is rejected.
C14_ReferredCount ==
    HeaderParsed => CountIs(IF CountBits <= 4 THEN CountBits ELSE MaskedCount)

\* C14 amended: the count is the value of the top 3 bits of the count byte
\* when that value is 0 to 6; only for the value 7 is the count read as a
\* 32-bit number with its top 3 bits masked off; a count above 64 is rejected.
C14_ReferredCountLongFormAtSeven ==
    HeaderParsed => CountIs(IF CountBits <= 6 THEN CountBits ELSE MaskedCount)

\* a header in the 32-bit form has been parsed with the count 64
C14_Witness ==
    /\ HeaderParsed /\ CountBits = 7 /\ ~hist[1].err
    /\ hist[1].seg.ReferredToSegmentCount = 64

(***************************************************************************)
(* Image.composeToInternal on its own: a source of 2 by 2 put on a         *)
(* destination of 3 by 2.                                                  *)
(***************************************************************************)

MaxShift == 3     \* the placements run from -MaxShift + 1 to MaxShift

\* an owned image of w by h whose pixel (x, y) is px[y + 1][x + 1]
ImageOf(w, h, px) ==
    LET img == NewImage(w, h)
        bit(i, k) == LET y == (i - 1) \div img.stride
                         x == ((i - 1) % img.stride) * 8 + k
                     IN  IF x < w THEN px[y + 1][x + 1] ELSE 0
    IN  [img EXCEPT !.data = Some([i \in 1..Len(Data(img)) |->
            bit(i, 0) * 128 + bit(i, 1) * 64 + bit(i, 2) * 32 + bit(i, 3) * 16
            + bit(i, 4) * 8 + bit(i, 5) * 4 + bit(i, 6) * 2 + bit(i, 7)])]

SourceImages ==
    {ImageOf(2, 2, px) : px \in {<<<<1, 0>>, <<0, 1>>>>, <<<<1, 1>>, <<1, 1>>>>,
                                 <<<<0, 1>>, <<0, 0>>>>}}
DestinationImages ==
    {ImageOf(3, 2, px) : px \in {<<<<0, 0, 0>>, <<0, 0, 0>>>>,
                                 <<<<1, 1, 1>>, <<1, 1, 1>>>>,
                                 <<<<1, 0, 1>>, <<0, 1, 0>>>>}}

\* rectangles of the 2 by 2 source: all of it, its right column, its bottom
\* row, and an empty one
SourceRects == {Rect(0, 0, 2, 2), Rect(1, 0, 2, 2), Rect(0, 1, 2, 2), Rect(1, 1, 1, 1)}

ComposeInputs ==
    {[Options(<<>>) EXCEPT !.kind = "compose",
                           !.SrcData = <<src, dst, x, y, op, rect>>] :
        src \in SourceImages, dst \in DestinationImages,
        x \in (1 - MaxShift)..MaxShift, y \in (1 - MaxShift)..(MaxShift - 1),
        op \in 0..4, rect \in SourceRects}

InitCompose ==
    /\ input \in ComposeInputs
    /\ created = FALSE
    /\ ctx = Nil
    /\ hist = <<>>
    /\ everErr = FALSE
    /\ cache = <<>>
    /\ heap = <<>>
    /\ stored = <<>>
    /\ touched = <<>>
    /\ cstep = <<>>

\* src.composeToInternal(dst, x, y, op, rect)
CallComposeTo ==
    /\ hist = <<>>
    /\ Let(composeToInternal(input.SrcData[1], input.SrcData[2], input.SrcData[3],
                             input.SrcData[4], input.SrcData[5], input.SrcData[6]),
           LAMBDA r :
           /\ hist' = <<[op |-> "ComposeTo", err |-> ~r.ok, dst |-> r.dst]>>
           /\ everErr' = ~r.ok)
    /\ UNCHANGED <<input, created, ctx, cache, heap, stored, touched, cstep>>

NextCompose == CallComposeTo

SpecCompose == InitCompose /\ [][NextCompose]_vars

Composed == input.kind = "compose" /\ hist # <<>>

ComposeSrc == input.SrcData[1]
ComposeDst == input.SrcData[2]
ComposeX == input.SrcData[3]
ComposeY == input.SrcData[4]
ComposeRect == input.SrcData[6]

\* the destination pixel (dx, dy) lies in the source rectangle placed at
\* (x, y)
InPlacedRect(dx, dy) ==
    /\ dx >= ComposeX /\ dx < ComposeX + RectWidth(ComposeRect)
    /\ dy >= ComposeY /\ dy < ComposeY + RectHeight(ComposeRect)

\* what the operators OR, AND, XOR, XNOR and REPLACE (0 to 4) make of a
\* destination pixel d and a source pixel s
Combined(op, d, s) ==
    CASE op = 0 -> IF d = 1 \/ s = 1 THEN 1 ELSE 0
      [] op = 1 -> IF d = 1 /\ s = 1 THEN 1 ELSE 0
      [] op = 2 -> IF d # s THEN 1 ELSE 0
      [] op = 3 -> IF d = s THEN 1 ELSE 0
      [] OTHER  -> s

\* C15: compose_to changes exactly the destination pixels inside the
\* intersection of the placed source rectangle with the destination bounds,
\* setting each to op(old destination pixel, matching source pixel); every
\* other destination pixel is unchanged, and so are the size and the stride
\* of the destination.
C15_ComposeToBand ==
    Composed
    => /\ hist[1].dst.width = ComposeDst.width
       /\ hist[1].dst.height = ComposeDst.height
       /\ hist[1].dst.stride = ComposeDst.stride
       /\ \A dx \in 0..(ComposeDst.width - 1), dy \in 0..(ComposeDst.height - 1) :
             GetPixel(hist[1].dst, dx, dy) =
                IF InPlacedRect(dx, dy)
                THEN Combined(input.SrcData[5], GetPixel(ComposeDst, dx, dy),
                         GetPixel(ComposeSrc, ComposeRect.Left + (dx - ComposeX),
                                              ComposeRect.Top + (dy - ComposeY)))
                ELSE GetPixel(ComposeDst, dx, dy)

\* the right column of the source has been put with XOR on the destination,
\* clipped at its top edge; a pixel of the band changed and a set pixel
\* outside the band is still set
C15_Witness ==
    /\ Composed /\ ~hist[1].err
    /\ input.SrcData[5] = 2 /\ ComposeY < 0 /\ ComposeRect = Rect(1, 0, 2, 2)
    /\ \E dx \in 0..2, dy \in 0..1 :
          /\ InPlacedRect(dx, dy)
          /\ GetPixel(hist[1].dst, dx, dy) # GetPixel(ComposeDst, dx, dy)
    /\ \E dx \in 0..2, dy \in 0..1 :
          ~InPlacedRect(dx, dy) /\ GetPixel(hist[1].dst, dx, dy) = 1

(***************************************************************************)
(* Image.Expand on its own: images of 3 by 2, owned and external, grown   *)
(* to heights around their own and to one past the largest allowed.       *)
(***************************************************************************)

MaxExpandHeight == 4     \* the heights asked for run from 0 to this

\* buffers a caller hands to NewImageFromBuffer: two rows of stride 4, the
\* last one with a third row behind them
CallerBuffers ==
    {<<160, 0, 0, 0, 64, 0, 0, 0>>, <<255, 255, 255, 255, 255, 255, 255, 255>>,
     <<0, 0, 0, 0, 0, 0, 0, 0>>, <<160, 0, 0, 0, 64, 0, 0, 0, 224, 0, 0, 0>>}

ExpandImages ==
    DestinationImages \cup {NewImageFromBuffer(3, 2, 4, buf).img : buf \in CallerBuffers}

ExpandInputs ==
    {[Options(<<>>) EXCEPT !.kind = "expand", !.SrcData = <<img, h, v>>] :
        img \in ExpandImages,
        h \in 0..MaxExpandHeight \cup {maxImageBytes \div 4 + 1},
        v \in BOOLEAN}

InitExpand ==
    /\ input \in ExpandInputs
    /\ created = FALSE
    /\ ctx = Nil
    /\ hist = <<>>
    /\ everErr = FALSE
    /\ cache = <<>>
    /\ heap = <<>>
    /\ stored = <<>>
    /\ touched = <<>>
    /\ cstep = <<>>

\* img.Expand(h, v)
CallExpand ==
    /\ hist = <<>>
    /\ hist' = <<[op |-> "Expand", err |-> FALSE,
                  img |-> Expand(input.SrcData[1], input.SrcData[2], input.SrcData[3])]>>
    /\ UNCHANGED <<input, created, ctx, everErr, cache, heap, stored, touched, cstep>>

NextExpand == CallExpand

SpecExpand == InitExpand /\ [][NextExpand]_vars

Expanded == input.kind = "expand" /\ hist # <<>>
ExpandImg == input.SrcData[1]
ExpandTo == input.SrcData[2]

\* C16 as stated: Expand never changes the height or the buffer of an
\* external image (one built over a caller-supplied buffer); only owned
\* images grow.
C16_ExternalNeverGrows ==
    (Expanded /\ ~ExpandImg.owned)
    => /\ hist[1].img.height = ExpandImg.height
       /\ hist[1].img.data = ExpandImg.data
       /\ ~hist[1].img.owned

\* C16 amended: Expand grows an external image as it grows an owned one,
\* unless the height asked for is at most the image's height or above
\* maxImageBytes / stride: the image gets a buffer of its own that holds its
\* old rows followed by the new rows filled with v, and becomes owned; an
\* image that is not grown keeps its height, its buffer and its ownership.
C16_ExternalGrowsIntoOwned ==
    Expanded
    => IF ExpandTo > ExpandImg.height /\ ExpandTo <= maxImageBytes \div ExpandImg.stride
       THEN /\ hist[1].img.owned
            /\ hist[1].img.height = ExpandTo
            /\ hist[1].img.width = ExpandImg.width
            /\ hist[1].img.stride = ExpandImg.stride
            /\ Len(Data(hist[1].img)) = ExpandImg.stride * ExpandTo
            /\ \A i \in 1..Len(Data(hist[1].img)) :
                  Data(hist[1].img)[i] =
                     IF i <= ExpandImg.stride * ExpandImg.height THEN Data(ExpandImg)[i]
                     ELSE IF input.SrcData[3] THEN 255 ELSE 0
       ELSE hist[1].img = ExpandImg

\* an external image of 2 rows with set pixels has been grown to 4 rows
C16_Witness ==
    /\ Expanded /\ ~ExpandImg.owned /\ GetPixel(ExpandImg, 0, 0) = 1
    /\ ExpandTo = 4 /\ hist[1].img.height = 4 /\ hist[1].img.owned
    /\ GetPixel(hist[1].img, 0, 0) = 1

----------------------------------------------------------------------------
(* The size of the images of the context *)

\* C17: every image the decoder creates, including the page image allocated
\* from a page-info segment and a page image after growth, has width at most
\* 65535 and height at most 65535.
C17_ImagesWithinLimit ==
    /\ (Called /\ ~IsNil(C.page))
          => /\ Val(C.page).width <= JBig2MaxImageSize
             /\ Val(C.page).height <= JBig2MaxImageSize
    /\ Called
          => \A i \in 1..Len(C.segments) :
                ~IsNil(C.segments[i].Image)
                   => /\ Val(C.segments[i].Image).width <= JBig2MaxImageSize
                      /\ Val(C.segments[i].Image).height <= JBig2MaxImageSize

(***************************************************************************)
(* Text region decoding (part_006).  The loops of decodeTextRegionArith    *)
(* and DecodeHuffman, with the answers of their integer decoders (IADT,   *)
(* IAFS, IADS, IAIT, or the Huffman tables) and of their symbol ID decoder *)
(* read from two tapes of coded symbols: what the decoders would make of  *)
(* the coded data is the input.  Refinement (SBREFINE) is left out.        *)
(***************************************************************************)

JBig2OOB == 1

CornerBottomLeft == 0
CornerTopLeft == 1
CornerBottomRight == 2
CornerTopRight == 3

\* a coded integer and the coded out-of-band symbol
Value(v) == [oob |-> FALSE, v |-> v]
OutOfBand == [oob |-> TRUE, v |-> 0]

NewTRDProc ==
    [SBREFINE |-> FALSE, Transposed |-> FALSE, SBDefPixel |-> FALSE,
     SBDSOffset |-> 0, SBWidth |-> 0, SBHeight |-> 0, SBNumInstances |-> 0,
     SBStrips |-> 1, SBNumSyms |-> 0, SBSyms |-> <<>>, SBCombOp |-> 0,
     RefCorner |-> CornerBottomLeft, SBHUFF |-> FALSE, SBSymCodeLen |-> 0,
     SBSymCodes |-> <<>>]

\* the state of one decode: the tapes left, the region image, the instances
\* counted, and (history) the glyphs ComposeTo has put on the image and
\* whether a glyph has been placed where it does not meet the image
NewTextDecode(ints, ids) ==
    [ints |-> ints, ids |-> ids, img |-> EmptyImage, instances |-> 0, placed |-> 0,
     firstS |-> 0, stripPosition |-> 0, ok |-> TRUE, missed |-> FALSE]

TextFailed(T) == [T EXCEPT !.ok = FALSE]

\* ArithIntDecoder.Decode, or HuffmanDecoder.Decode behind one of the
\* decodeHuffman helpers, which read the value JBig2OOB as out of band:
\* [err, ok, v, T]
NextInt(T, huff) ==
    IF T.ints = <<>> THEN [err |-> TRUE, ok |-> FALSE, v |-> 0, T |-> T]
    ELSE LET e == Head(T.ints)
             val == IF e.oob THEN JBig2OOB ELSE e.v
             T1 == [T EXCEPT !.ints = Tail(@)]
         IN  IF huff
             THEN [err |-> FALSE, ok |-> val # JBig2OOB,
                   v |-> IF val = JBig2OOB THEN 0 ELSE val, T |-> T1]
             ELSE [err |-> FALSE, ok |-> ~e.oob, v |-> e.v, T |-> T1]

\* ArithIaidDecoder.Decode or decodeHuffmanSymID: [err, v, T]
NextSymID(T) ==
    IF T.ids = <<>> THEN [err |-> TRUE, v |-> 0, T |-> T]
    ELSE [err |-> FALSE, v |-> Head(T.ids), T |-> [T EXCEPT !.ids = Tail(@)]]

ComposeTo(img, dst, x, y, op) ==
    IF ~HasData(img) THEN [ok |-> FALSE, dst |-> dst]
    ELSE composeToInternal(img, dst, x, y, op, Rect(0, 0, img.width, img.height))

getComposeData(p, si, ti, wi, hi) ==
    IF ~p.Transposed
    THEN CASE p.RefCorner = CornerTopLeft ->
                [x |-> si, y |-> ti, increment |-> wi - 1]
           [] p.RefCorner = CornerTopRight ->
                [x |-> si - wi + 1, y |-> ti, increment |-> 0]
           [] p.RefCorner = CornerBottomLeft ->
                [x |-> si, y |-> ti - hi + 1, increment |-> wi - 1]
           [] OTHER ->
                [x |-> si - wi + 1, y |-> ti - hi + 1, increment |-> 0]
    ELSE CASE p.RefCorner = CornerTopLeft ->
                [x |-> ti, y |-> si, increment |-> hi - 1]
           [] p.RefCorner = CornerTopRight ->
                [x |-> ti - wi + 1, y |-> si, increment |-> hi - 1]
           [] p.RefCorner = CornerBottomLeft ->
                [x |-> ti, y |-> si - hi + 1, increment |-> 0]
           [] OTHER ->
                [x |-> ti - wi + 1, y |-> si - hi + 1, increment |-> 0]

\* an inner loop that never finds the instances complete
InstancesNeverDone(p, T) == FALSE

\* the test that leaves the inner loop: every instance has been placed
InstancesDone(p, T) == T.instances >= p.SBNumInstances

\* a rectangle of w by h at (x, y) has no pixel in common with dst
Misses(x, y, w, h, dst) ==
    x >= dst.width \/ x + w <= 0 \/ y >= dst.height \/ y + h <= 0

RECURSIVE TextStrips(_, _, _)
RECURSIVE TextInstances(_, _, _, _, _)

\* the glyph is put at (curs, ti) and the inner loop goes on
TextPlace(p, huff, T, glyph, curs0, ti) ==
    LET wi == glyph.width
        hi == glyph.height
        curs == IF ~p.Transposed /\ p.RefCorner \in {CornerTopRight, CornerBottomRight}
                THEN curs0 + wi - 1
                ELSE IF p.Transposed
                        /\ p.RefCorner \in {CornerBottomLeft, CornerBottomRight}
                THEN curs0 + hi - 1
                ELSE curs0
        compose == getComposeData(p, curs, ti, wi, hi)
    IN  Let(ComposeTo(glyph, T.img, compose.x, compose.y, p.SBCombOp), LAMBDA r :
            IF ~r.ok
            THEN TextFailed([T EXCEPT !.img = r.dst,
                                      !.missed = Misses(compose.x, compose.y, wi, hi,
                                                        T.img)])
            ELSE TextInstances(p, huff,
                               [T EXCEPT !.img = r.dst, !.instances = @ + 1,
                                         !.placed = @ + 1],
                               curs + compose.increment, FALSE))

\* the inner loop of a strip: the S coordinate, then one instance
TextInstances(p, huff, T, curs, first) ==
    Let(NextInt(T, huff), LAMBDA r :
        IF r.err \/ (first /\ ~r.ok) THEN TextFailed(r.T)
        ELSE IF ~r.ok THEN TextStrips(p, huff, r.T)
        ELSE
        Let(IF first THEN [r.T EXCEPT !.firstS = @ + r.v] ELSE r.T, LAMBDA T1 :
        Let(IF first THEN T1.firstS ELSE curs + r.v + p.SBDSOffset, LAMBDA s :
        IF InstancesDone(p, T1) THEN TextStrips(p, huff, T1)
        ELSE
        Let(IF p.SBStrips # 1 THEN NextInt(T1, huff)
            ELSE [err |-> FALSE, ok |-> TRUE, v |-> 0, T |-> T1], LAMBDA it :
        IF it.err \/ ~it.ok THEN TextFailed(it.T)
        ELSE IF it.T.stripPosition + it.v < -(2 ^ 30)
                \/ it.T.stripPosition + it.v > 2 ^ 30 THEN TextFailed(it.T)
        ELSE
        Let(NextSymID(it.T), LAMBDA id :
        IF id.err \/ id.v >= p.SBNumSyms THEN TextFailed(id.T)
        ELSE IF p.SBREFINE THEN TextFailed(id.T)
        ELSE IF id.v >= Len(p.SBSyms) \/ IsNil(p.SBSyms[id.v + 1])
        THEN TextFailed(id.T)
        ELSE TextPlace(p, huff, id.T, Val(p.SBSyms[id.v + 1]), s,
                       it.T.stripPosition + it.v))))))

\* the outer loop: one strip after another until every instance is placed
TextStrips(p, huff, T) ==
    IF T.instances >= p.SBNumInstances THEN T
    ELSE Let(NextInt(T, huff), LAMBDA r :
             IF r.err \/ ~r.ok THEN TextFailed(r.T)
             ELSE TextInstances(p, huff,
                                [r.T EXCEPT !.stripPosition = @ + r.v * p.SBStrips],
                                0, TRUE))

\* the region image, the first strip position, then the strips
TextRegion(p, huff, T) ==
    Let(NewImage(p.SBWidth, p.SBHeight), LAMBDA img :
        IF ~HasData(img) THEN TextFailed(T)
        ELSE Let(NextInt([T EXCEPT !.img = Fill(img, p.SBDefPixel)], huff), LAMBDA r :
                 IF r.err \/ ~r.ok THEN TextFailed(r.T)
                 ELSE TextStrips(p, huff,
                                 [r.T EXCEPT !.stripPosition = -(r.v * p.SBStrips)])))

decodeTextRegionArith(p, T) ==
    IF ~IsValidImageSize(p.SBWidth, p.SBHeight)
    THEN [T EXCEPT !.img = NewImage(p.SBWidth, p.SBHeight)]
    ELSE TextRegion(p, FALSE, T)

DecodeHuffman(p, T) == TextRegion(p, TRUE, T)

MaxTape == 7      \* coded integers on the tape of a text region

\* glyphs of 1 by 1 and of 2 by 2, every pixel set
Glyphs == <<Some(ImageOf(1, 1, <<<<1>>>>)), Some(ImageOf(2, 2, <<<<1, 1>>, <<1, 1>>>>))>>

\* text regions of 4 by 4 over the two glyphs combined with OR: two
\* instances in strips of height 1 from the top left corner, one instance in
\* strips of height 2 from the bottom right corner, and no instance at all
TextProcs ==
    LET p == [NewTRDProc EXCEPT !.SBWidth = 4, !.SBHeight = 4, !.SBSyms = Glyphs,
                                !.SBNumSyms = 2]
    IN  {[p EXCEPT !.SBNumInstances = 2, !.RefCorner = CornerTopLeft],
         [p EXCEPT !.SBNumInstances = 1, !.SBStrips = 2,
                   !.RefCorner = CornerBottomRight],
         p}

RECURSIVE Tapes(_, _)
Tapes(n, symbols) ==
    IF n = 0 THEN {<<>>}
    ELSE {<<e>> \o t : e \in symbols, t \in Tapes(n - 1, symbols)}

TextInputs ==
    {[Options(<<>>) EXCEPT !.kind = "text", !.SrcData = <<p, ints, ids>>] :
        p \in TextProcs,
        ints \in Tapes(MaxTape, {Value(0), Value(1), OutOfBand}),
        ids \in {<<0, 1>>, <<1, 0>>, <<1, 1>>, <<0, 2>>}}

InitText ==
    /\ input \in TextInputs
    /\ created = FALSE
    /\ ctx = Nil
    /\ hist = <<>>
    /\ everErr = FALSE
    /\ cache = <<>>
    /\ heap = <<>>
    /\ stored = <<>>
    /\ touched = <<>>
    /\ cstep = <<>>

TextDecoded(op, T) ==
    /\ hist' = <<[op |-> op, err |-> ~T.ok, T |-> T]>>
    /\ everErr' = ~T.ok
    /\ UNCHANGED <<input, created, ctx, cache, heap, stored, touched, cstep>>

\* TRDProc.DecodeArith
CallDecodeArith ==
    /\ hist = <<>>
    /\ TextDecoded("DecodeArith",
                   decodeTextRegionArith(input.SrcData[1],
                       NewTextDecode(input.SrcData[2], input.SrcData[3])))

\* TRDProc.DecodeHuffman
CallDecodeHuffman ==
    /\ hist = <<>>
    /\ TextDecoded("DecodeHuffman",
                   DecodeHuffman(input.SrcData[1],
                       NewTextDecode(input.SrcData[2], input.SrcData[3])))

NextText == CallDecodeArith \/ CallDecodeHuffman

SpecText == InitText /\ [][NextText]_vars

\* the coded integers the decode has read
TextRead == SubSeq(input.SrcData[2], 1, MaxTape - Len(hist[1].T.ints))

ExportTotal == 3     \* input symbols plus new symbols

\* the bitmaps of the symbols: symbol i is i pixels wide
ExportHeap == [i \in 1..ExportTotal |-> ImageOf(i, 1, <<[x \in 1..i |-> 1]>>)]

\* the coded run lengths
ExportCodes ==
    {<<a, 255>> : a \in {0, 64, 86, 100, 106, 110, 117, 119, 128, 140, 143,
                         148, 160, 170, 200, 255}}
       \cup {<<165, 8, 255>>, <<165, 235, 255>>, <<166, 108, 255>>}

\* nin input symbols, the others new, the new symbol numbered absent nil
ExportInput(nin, nex, absent, code) ==
    [Options(code) EXCEPT
        !.kind = "export",
        !.GlobalData =
            <<[NewSDDProc EXCEPT !.SDNUMINSYMS = nin,
                                 !.SDNUMNEWSYMS = ExportTotal - nin,
                                 !.SDNUMEXSYMS = nex,
                                 !.SDINSYMS = [i \in 1..nin |-> i]],
              [i \in 1..(ExportTotal - nin) |-> IF i = absent THEN 0 ELSE nin + i]>>]

ExportInputs ==
    {ExportInput(nin, nex, absent, code) :
        nin \in 0..ExportTotal, nex \in 0..ExportTotal, absent \in 0..1,
        code \in ExportCodes}

InitExport ==
    /\ input \in ExportInputs
    /\ created = FALSE
    /\ ctx = Nil
    /\ hist = <<>>
    /\ everErr = FALSE
    /\ cache = <<>>
    /\ heap = <<>>
    /\ stored = <<>>
    /\ touched = <<>>
    /\ cstep = <<>>

ExportProc == input.GlobalData[1]
ExportNew == input.GlobalData[2]

\* decodeExportFlagsArith, then buildExportedDictionary when it succeeds
CallExport ==
    /\ hist = <<>>
    /\ Let(NewArithDecoder([buf |-> input.SrcData, byteIx |-> 0, bitIx |-> 0]),
           LAMBDA a :
       Let(decodeExportFlagsArith(ExportProc,
               [d |-> a.d, s |-> a.s, gb |-> MakeContexts(0), heap |-> ExportHeap,
                iadH |-> NewArithIntDecoder, iadW |-> NewArithIntDecoder,
                iaex |-> NewArithIntDecoder, err |-> FALSE, fault |-> "none"],
               ExportTotal), LAMBDA x :
           IF x.S.err
           THEN /\ hist' = <<[op |-> "Export", err |-> TRUE, flags |-> x.flags,
                              dict |-> NewSymbolDict, heap |-> ExportHeap]>>
                /\ everErr' = TRUE
           ELSE Let(buildExportedDictionary(ExportProc, ExportHeap, ExportNew,
                                            x.flags), LAMBDA b :
                    /\ hist' = <<[op |-> "Export", err |-> FALSE, flags |-> x.flags,
                                  dict |-> b.dict, heap |-> b.heap]>>
                    /\ everErr' = FALSE)))
    /\ UNCHANGED <<input, created, ctx, cache, heap, stored, touched, cstep>>

NextExport == CallExport

SpecExport == InitExport /\ [][NextExport]_vars

Exported == input.kind = "export" /\ hist # <<>> /\ ~hist[1].err

\* the numbers, from 1, of the symbols whose export flag is true, in the
\* order input symbols then new symbols
RECURSIVE FlaggedFrom(_, _)
FlaggedFrom(flags, i) ==
    IF i > Len(flags) THEN <<>>
    ELSE (IF flags[i] THEN <<i>> ELSE <<>>) \o FlaggedFrom(flags, i + 1)

\* the bitmap at address a of the heap hp, Nil for the nil symbol
BitmapAt(hp, a) ==
    IF a = 0 THEN Nil ELSE Some(<<hp[a].width, hp[a].height, hp[a].data>>)

\* the bitmap of symbol i before the export
SymbolBitmap(i) ==
    BitmapAt(ExportHeap, IF i <= ExportProc.SDNUMINSYMS THEN ExportProc.SDINSYMS[i]
                         ELSE ExportNew[i - ExportProc.SDNUMINSYMS])

\* C19: for every symbol dictionary that decodes successfully, the exported
\* dictionary holds exactly min(num_ex, number of export flags that are
\* true) bitmaps, and they are the first flagged symbols in (in_syms,
\* new_syms) order.
C19_ExportedAreFirstFlagged ==
    Exported
    => LET flagged == FlaggedFrom(hist[1].flags, 1)
           n == Min(ExportProc.SDNUMEXSYMS, Len(flagged))
       IN  /\ Len(hist[1].dict.symbols) = n
           /\ \A k \in 1..n :
                 BitmapAt(hist[1].heap, hist[1].dict.symbols[k])
                    = SymbolBitmap(flagged[k])

\* an input symbol and a new symbol have been exported, a symbol between
\* them left out
C19_Witness ==
    /\ Exported
    /\ hist[1].flags = <<TRUE, FALSE, TRUE>>
    /\ ExportProc.SDNUMINSYMS = 2 /\ ExportNew = <<3>>
    /\ Len(hist[1].dict.symbols) = 2

(***************************************************************************)
(* Huffman tables (huffman_table.go) and the symbol ID table of a text     *)
(* region (decodeSymbolIDHuffmanTable).  A code is [CodeLength, Code]; a   *)
(* table is [hasOOB, codes, rangeLen, rangeLow].                           *)
(***************************************************************************)

int32Max == 2147483647
int32Min == -int32Max - 1

\* int32(u) of a uint32
Int32Of(u) ==
    IF u.hi < 32768 THEN u.hi * 65536 + u.lo ELSE (u.hi - 65536) * 65536 + u.lo

advanceBit(s) ==
    IF s.bitIx = 7 THEN [s EXCEPT !.byteIx = @ + 1, !.bitIx = 0]
    ELSE [s EXCEPT !.bitIx = @ + 1]

Read1Bit(s) ==
    IF ~InBounds(s) THEN [ok |-> FALSE, v |-> 0, s |-> s]
    ELSE [ok |-> TRUE, v |-> Shr(s.buf[s.byteIx + 1], 7 - s.bitIx) % 2,
          s |-> advanceBit(s)]

RECURSIVE ReadBits(_, _, _)
ReadBits(s, n, result) ==
    IF n = 0 THEN [ok |-> TRUE, v |-> result, s |-> s]
    ELSE ReadBits(advanceBit(s), n - 1,
                  result * 2 + (Shr(s.buf[s.byteIx + 1], 7 - s.bitIx) % 2))

\* ReadNBits for a count of at most 8, as the tables use it: at the end of
\* the stream it answers the bits that are left, without an error
ReadNBits(s, count) ==
    IF ~InBounds(s) THEN [ok |-> FALSE, v |-> 0, s |-> s]
    ELSE ReadBits(s, Min(count, Len(s.buf) * 8 - (s.byteIx * 8 + s.bitIx)), 0)

HuffmanCode(len) == [CodeLength |-> len, Code |-> 0]

RECURSIVE MaxCodeLength(_)
MaxCodeLength(codes) ==
    IF codes = <<>> THEN 0
    ELSE Max(Head(codes).CodeLength, MaxCodeLength(Tail(codes)))

\* lencounts[i] of assignHuffmanCodes, with lencounts[0] set to 0
LenCount(codes, i) ==
    IF i = 0 THEN 0
    ELSE Cardinality({k \in 1..Len(codes) : codes[k].CodeLength = i})

\* the codes of length i get cur, cur + 1, ... in table order
AssignLength(codes, i, first) ==
    [k \in 1..Len(codes) |->
        IF codes[k].CodeLength = i
        THEN [codes[k] EXCEPT
                 !.Code = first + Cardinality({j \in 1..(k - 1) :
                                                  codes[j].CodeLength = i})]
        ELSE codes[k]]

\* the loop over the lengths i..maxLen; prev is firstcodes[i-1]
RECURSIVE AssignFrom(_, _, _, _)
AssignFrom(codes, i, maxLen, prev) ==
    IF i > maxLen THEN [err |-> FALSE, codes |-> codes]
    ELSE IF prev > int32Max \div 2 - LenCount(codes, i - 1)
         THEN [err |-> TRUE, codes |-> codes]
         ELSE Let((prev + LenCount(codes, i - 1)) * 2, LAMBDA first :
                  IF LenCount(codes, i) > 0
                     /\ first > int32Max - (LenCount(codes, i) - 1)
                  THEN [err |-> TRUE, codes |-> codes]
                  ELSE AssignFrom(AssignLength(codes, i, first), i + 1,
                                  maxLen, first))

\* the code lengths read from the stream are never negative, and none is
\* above the largest of them
assignHuffmanCodes(codes) ==
    IF MaxCodeLength(codes) = 0 THEN [err |-> FALSE, codes |-> codes]
    ELSE AssignFrom(codes, 1, MaxCodeLength(codes), 0)

HuffmanAssignCode(codes) == assignHuffmanCodes(codes)

\* builtinHuffmanTables[idx] for idx from 1; entry 0 of the source array is
\* unused.  A line is <<preflen, rangeLen, rangeLow>>.
builtinHuffmanTables ==
    LET tableLine1 ==
            <<<<1, 4, 0>>, <<2, 8, 16>>, <<3, 16, 272>>, <<0, 32, -1>>,
              <<3, 32, 65808>>>>
        tableLine2 ==
            <<<<1, 0, 0>>, <<2, 0, 1>>, <<3, 0, 2>>, <<4, 3, 3>>, <<5, 6, 11>>,
              <<0, 32, -1>>, <<6, 32, 75>>, <<6, 0, 0>>>>
        tableLine3 ==
            <<<<8, 8, -256>>, <<1, 0, 0>>, <<2, 0, 1>>, <<3, 0, 2>>, <<4, 3, 3>>,
              <<5, 6, 11>>, <<8, 32, -257>>, <<7, 32, 75>>, <<6, 0, 0>>>>
        tableLine4 ==
            <<<<1, 0, 1>>, <<2, 0, 2>>, <<3, 0, 3>>, <<4, 3, 4>>, <<5, 6, 12>>,
              <<0, 32, -1>>, <<5, 32, 76>>>>
        tableLine5 ==
            <<<<7, 8, -255>>, <<1, 0, 1>>, <<2, 0, 2>>, <<3, 0, 3>>, <<4, 3, 4>>,
              <<5, 6, 12>>, <<7, 32, -256>>, <<6, 32, 76>>>>
        tableLine6 ==
            <<<<5, 10, -2048>>, <<4, 9, -1024>>, <<4, 8, -512>>, <<4, 7, -256>>,
              <<5, 6, -128>>, <<5, 5, -64>>, <<4, 5, -32>>, <<2, 7, 0>>,
              <<3, 7, 128>>, <<3, 8, 256>>, <<4, 9, 512>>, <<4, 10, 1024>>,
              <<6, 32, -2049>>, <<6, 32, 2048>>>>
        tableLine7 ==
            <<<<4, 9, -1024>>, <<3, 8, -512>>, <<4, 7, -256>>, <<5, 6, -128>>,
              <<5, 5, -64>>, <<4, 5, -32>>, <<4, 5, 0>>, <<5, 5, 32>>,
              <<5, 6, 64>>, <<4, 7, 128>>, <<3, 8, 256>>, <<3, 9, 512>>,
              <<3, 10, 1024>>, <<5, 32, -1025>>, <<5, 32, 2048>>>>
        tableLine8 ==
            <<<<8, 3, -15>>, <<9, 1, -7>>, <<8, 1, -5>>, <<9, 0, -3>>,
              <<7, 0, -2>>, <<4, 0, -1>>, <<2, 1, 0>>, <<5, 0, 2>>, <<6, 0, 3>>,
              <<3, 4, 4>>, <<6, 1, 20>>, <<4, 4, 22>>, <<4, 5, 38>>, <<5, 6, 70>>,
              <<5, 7, 134>>, <<6, 7, 262>>, <<7, 8, 390>>, <<6, 10, 646>>,
              <<9, 32, -16>>, <<9, 32, 1670>>, <<2, 0, 0>>>>
        tableLine9 ==
            <<<<8, 4, -31>>, <<9, 2, -15>>, <<8, 2, -11>>, <<9, 1, -7>>,
              <<7, 1, -5>>, <<4, 1, -3>>, <<3, 1, -1>>, <<3, 1, 1>>, <<5, 1, 3>>,
              <<6, 1, 5>>, <<3, 5, 7>>, <<6, 2, 39>>, <<4, 5, 43>>, <<4, 6, 75>>,
              <<5, 7, 139>>, <<5, 8, 267>>, <<6, 8, 523>>, <<7, 9, 779>>,
              <<6, 11, 1291>>, <<9, 32, -32>>, <<9, 32, 3339>>, <<2, 0, 0>>>>
        tableLine10 ==
            <<<<7, 4, -21>>, <<8, 0, -5>>, <<7, 0, -4>>, <<5, 0, -3>>,
              <<2, 2, -2>>, <<5, 0, 2>>, <<6, 0, 3>>, <<7, 0, 4>>, <<8, 0, 5>>,
              <<2, 6, 6>>, <<5, 5, 70>>, <<6, 5, 102>>, <<6, 6, 134>>,
              <<6, 7, 198>>, <<6, 8, 326>>, <<6, 9, 582>>, <<6, 10, 1094>>,
              <<7, 11, 2118>>, <<8, 32, -22>>, <<8, 32, 4166>>, <<2, 0, 0>>>>
        tableLine11 ==
            <<<<1, 0, 1>>, <<2, 1, 2>>, <<4, 0, 4>>, <<4, 1, 5>>, <<5, 1, 7>>,
              <<5, 2, 9>>, <<6, 2, 13>>, <<7, 2, 17>>, <<7, 3, 21>>, <<7, 4, 29>>,
              <<7, 5, 45>>, <<7, 6, 77>>, <<0, 32, 0>>, <<7, 32, 141>>>>
        tableLine12 ==
            <<<<1, 0, 1>>, <<2, 0, 2>>, <<3, 1, 3>>, <<5, 0, 5>>, <<5, 1, 6>>,
              <<6, 1, 8>>, <<7, 0, 10>>, <<7, 1, 11>>, <<7, 2, 13>>, <<7, 3, 17>>,
              <<7, 4, 25>>, <<8, 5, 41>>, <<0, 32, 0>>, <<8, 32, 73>>>>
        tableLine13 ==
            <<<<1, 0, 1>>, <<3, 0, 2>>, <<4, 0, 3>>, <<5, 0, 4>>, <<4, 1, 5>>,
              <<3, 3, 7>>, <<6, 1, 15>>, <<6, 2, 17>>, <<6, 3, 21>>, <<6, 4, 29>>,
              <<6, 5, 45>>, <<7, 6, 77>>, <<0, 32, 0>>, <<7, 32, 141>>>>
        tableLine14 ==
            <<<<3, 0, -2>>, <<3, 0, -1>>, <<1, 0, 0>>, <<3, 0, 1>>, <<3, 0, 2>>,
              <<0, 32, -3>>, <<0, 32, 3>>>>
        tableLine15 ==
            <<<<7, 4, -24>>, <<6, 2, -8>>, <<5, 1, -4>>, <<4, 0, -2>>,
              <<3, 0, -1>>, <<1, 0, 0>>, <<3, 0, 1>>, <<4, 0, 2>>, <<5, 1, 3>>,
              <<6, 2, 5>>, <<7, 4, 9>>, <<7, 32, -25>>, <<7, 32, 25>>>>
    IN  <<[htoob |-> FALSE, lines |-> tableLine1],
        [htoob |-> TRUE, lines |-> tableLine2],
        [htoob |-> TRUE, lines |-> tableLine3],
        [htoob |-> FALSE, lines |-> tableLine4],
        [htoob |-> FALSE, lines |-> tableLine5],
        [htoob |-> FALSE, lines |-> tableLine6],
        [htoob |-> FALSE, lines |-> tableLine7],
        [htoob |-> TRUE, lines |-> tableLine8],
        [htoob |-> TRUE, lines |-> tableLine9],
        [htoob |-> TRUE, lines |-> tableLine10],
        [htoob |-> FALSE, lines |-> tableLine11],
        [htoob |-> FALSE, lines |-> tableLine12],
        [htoob |-> FALSE, lines |-> tableLine13],
        [htoob |-> FALSE, lines |-> tableLine14],
        [htoob |-> FALSE, lines |-> tableLine15]>>

NoTable == [hasOOB |-> FALSE, codes |-> <<>>, rangeLen |-> <<>>, rangeLow |-> <<>>]

NewStandardHuffmanTable(idx) ==
    IF idx <= 0 \/ idx >= Len(builtinHuffmanTables) + 1
    THEN [err |-> TRUE, ht |-> NoTable]
    ELSE Let(builtinHuffmanTables[idx], LAMBDA lineData :
         Let(assignHuffmanCodes([i \in 1..Len(lineData.lines) |->
                                    HuffmanCode(lineData.lines[i][1])]),
             LAMBDA a :
             IF a.err THEN [err |-> TRUE, ht |-> NoTable]
             ELSE [err |-> FALSE,
                   ht |-> [hasOOB |-> lineData.htoob,
                           codes |-> a.codes,
                           rangeLen |-> [i \in 1..Len(lineData.lines) |->
                                            lineData.lines[i][2]],
                           rangeLow |-> [i \in 1..Len(lineData.lines) |->
                                            lineData.lines[i][3]]]]))

appendEntry(ht, codeLen, rangeLen, rangeLow) ==
    [ht EXCEPT !.codes = Append(@, HuffmanCode(codeLen)),
               !.rangeLen = Append(@, rangeLen),
               !.rangeLow = Append(@, rangeLow)]

\* the loop of NewHuffmanTableFromStream over the lines of the range
\* low..high: [ok, s, ht]
RECURSIVE TableLines(_, _, _, _, _, _)
TableLines(s, htps, htrs, curLow, upper, ht) ==
    Let(ReadNBits(s, htps), LAMBDA c :
    IF ~c.ok THEN [ok |-> FALSE, s |-> c.s, ht |-> ht]
    ELSE Let(ReadNBits(c.s, htrs), LAMBDA r :
         IF ~r.ok THEN [ok |-> FALSE, s |-> r.s, ht |-> ht]
         ELSE IF r.v >= 32 THEN [ok |-> FALSE, s |-> r.s, ht |-> ht]
         ELSE Let(appendEntry(ht, c.v, r.v, curLow), LAMBDA h :
              IF (IF r.v = 31 THEN curLow > -1
                  ELSE curLow > int32Max - Pow2(r.v))
              THEN [ok |-> FALSE, s |-> r.s, ht |-> h]
              ELSE IF curLow + Pow2(r.v) >= upper
                   THEN [ok |-> TRUE, s |-> r.s, ht |-> h]
                   ELSE TableLines(r.s, htps, htrs, curLow + Pow2(r.v),
                                   upper, h))))

\* the lower range line, the upper range line and the out-of-band line
TableTail(s, htps, low, high, ht) ==
    Let(ReadNBits(s, htps), LAMBDA c1 :
    IF ~c1.ok \/ low = int32Min THEN [err |-> TRUE, s |-> c1.s, ht |-> NoTable]
    ELSE Let(ReadNBits(c1.s, htps), LAMBDA c2 :
         IF ~c2.ok THEN [err |-> TRUE, s |-> c2.s, ht |-> NoTable]
         ELSE Let(appendEntry(appendEntry(ht, c1.v, 32, low - 1), c2.v, 32, high),
                  LAMBDA h :
              IF ~h.hasOOB THEN [err |-> FALSE, s |-> c2.s, ht |-> h]
              ELSE Let(ReadNBits(c2.s, htps), LAMBDA c3 :
                   IF ~c3.ok THEN [err |-> TRUE, s |-> c3.s, ht |-> NoTable]
                   ELSE [err |-> FALSE, s |-> c3.s,
                         ht |-> appendEntry(h, c3.v, 0, 0)]))))

\* [err, s, ht]
NewHuffmanTableFromStream(s) ==
    Let(ReadByte(s), LAMBDA f :
    IF ~f.ok THEN [err |-> TRUE, s |-> f.s, ht |-> NoTable]
    ELSE Let(ReadUint32(f.s), LAMBDA lo :
         IF ~lo.ok THEN [err |-> TRUE, s |-> lo.s, ht |-> NoTable]
         ELSE Let(ReadUint32(lo.s), LAMBDA hi :
              IF ~hi.ok \/ Int32Of(lo.v) > Int32Of(hi.v)
              THEN [err |-> TRUE, s |-> hi.s, ht |-> NoTable]
              ELSE Let(TableLines(hi.s, (Shr(f.v, 1) % 8) + 1, (Shr(f.v, 4) % 8) + 1,
                                  Int32Of(lo.v), Int32Of(hi.v),
                                  [NoTable EXCEPT !.hasOOB = f.v % 2 # 0]),
                       LAMBDA l :
                   IF ~l.ok THEN [err |-> TRUE, s |-> l.s, ht |-> NoTable]
                   ELSE Let(TableTail(l.s, (Shr(f.v, 1) % 8) + 1, Int32Of(lo.v),
                                      Int32Of(hi.v), l.ht), LAMBDA t :
                        IF t.err THEN t
                        ELSE Let(assignHuffmanCodes(t.ht.codes), LAMBDA a :
                             IF a.err THEN [err |-> TRUE, s |-> t.s, ht |-> NoTable]
                             ELSE [err |-> FALSE, s |-> t.s,
                                   ht |-> [t.ht EXCEPT !.codes = a.codes]]))))))

runCodesSize == 35

\* the code lengths of the run codes, four bits each: [ok, s, codes]
RECURSIVE ReadRunCodes(_, _)
ReadRunCodes(s, codes) ==
    IF Len(codes) = runCodesSize THEN [ok |-> TRUE, s |-> s, codes |-> codes]
    ELSE Let(ReadNBits(s, 4), LAMBDA r :
             IF ~r.ok THEN [ok |-> FALSE, s |-> r.s, codes |-> codes]
             ELSE ReadRunCodes(r.s, Append(codes, HuffmanCode(r.v))))

\* the first run code whose length is nBits and whose code is value, 0 when
\* there is none; run code j of the source is number j + 1 here
MatchRunCode(runCodes, nBits, value) ==
    LET m == {j \in 1..runCodesSize :
                 runCodes[j].CodeLength = nBits /\ runCodes[j].Code = value}
    IN  IF m = {} THEN 0 ELSE CHOOSE j \in m : \A k \in m : j <= k

\* bits are read until they spell a run code: [ok, s, runcode].  A code
\* length is below 16, so no value of 16 bits or more is matched.
RECURSIVE NextRunCode(_, _, _, _)
NextRunCode(s, runCodes, value, nBits) ==
    Let(Read1Bit(s), LAMBDA b :
    IF ~b.ok THEN [ok |-> FALSE, s |-> b.s, runcode |-> 0]
    ELSE Let(MatchRunCode(runCodes, nBits + 1, value * 2 + b.v), LAMBDA j :
         IF j # 0 THEN [ok |-> TRUE, s |-> b.s, runcode |-> j - 1]
         ELSE NextRunCode(b.s, runCodes,
                          IF nBits + 1 >= 16 THEN 0 ELSE value * 2 + b.v,
                          Min(nBits + 1, 16))))

\* codes i+1 .. i+run get the length len
SetRun(codes, i, run, len) ==
    [k \in 1..Len(codes) |->
        IF k > i /\ k <= i + run THEN HuffmanCode(len) ELSE codes[k]]

\* the loop over the symbols; i symbols have their length: [ok, s, codes]
RECURSIVE SymbolIDLengths(_, _, _, _)
SymbolIDLengths(s, runCodes, codes, i) ==
    IF i >= Len(codes) THEN [ok |-> TRUE, s |-> s, codes |-> codes]
    ELSE Let(NextRunCode(s, runCodes, 0, 0), LAMBDA c :
         IF ~c.ok THEN [ok |-> FALSE, s |-> c.s, codes |-> codes]
         ELSE IF c.runcode < 32
              THEN SymbolIDLengths(c.s, runCodes,
                                   SetRun(codes, i, 1, c.runcode), i + 1)
              ELSE Let(ReadNBits(c.s, CASE c.runcode = 32 -> 2
                                        [] c.runcode = 33 -> 3
                                        [] OTHER -> 7), LAMBDA v :
                   IF ~v.ok THEN [ok |-> FALSE, s |-> v.s, codes |-> codes]
                   ELSE Let(v.v + (IF c.runcode = 34 THEN 11 ELSE 3), LAMBDA run :
                        IF i + run > Len(codes)
                        THEN [ok |-> FALSE, s |-> v.s, codes |-> codes]
                        ELSE SymbolIDLengths(v.s, runCodes,
                                 SetRun(codes, i, run,
                                        IF c.runcode = 32 /\ i > 0
                                        THEN codes[i].CodeLength ELSE 0),
                                 i + run))))

\* [err, s, codes]
decodeSymbolIDHuffmanTable(s, numSyms) ==
    Let(ReadRunCodes(s, <<>>), LAMBDA r :
    IF ~r.ok THEN [err |-> TRUE, s |-> r.s, codes |-> <<>>]
    ELSE Let(HuffmanAssignCode(r.codes), LAMBDA a :
         IF a.err THEN [err |-> TRUE, s |-> r.s, codes |-> <<>>]
         ELSE Let(SymbolIDLengths(r.s, a.codes,
                                  [k \in 1..numSyms |-> HuffmanCode(0)], 0),
                  LAMBDA l :
              IF ~l.ok THEN [err |-> TRUE, s |-> l.s, codes |-> <<>>]
              ELSE Let(HuffmanAssignCode(l.codes), LAMBDA c :
                   IF c.err THEN [err |-> TRUE, s |-> l.s, codes |-> <<>>]
                   ELSE [err |-> FALSE, s |-> l.s, codes |-> c.codes]))))

(***************************************************************************)
(* The three ways a Huffman table is built: a standard table by its index, *)
(* a custom table from the data of a tables segment, and the symbol ID     *)
(* table from the data of a text region.                                   *)
(***************************************************************************)

MaxSymbols == 3       \* symbols of a symbol ID table
MaxRunLength == 2     \* code length of a run code

\* the data of a tables segment: HTPS 2 and HTRS 1, the range 0..high, and
\* two bytes of table lines
CustomData(oob, high, b1, b2) == <<2 + oob, 0, 0, 0, 0, 0, 0, 0, high, b1, b2>>

\* nibbles packed two to the byte, the first in the high half
PackNibbles(n) == [k \in 1..(Len(n) \div 2) |-> n[2 * k - 1] * 16 + n[2 * k]]

\* the data of a symbol ID table: the lengths l1, l2 and l32 of the run
\* codes 1, 2 and 32, the other run codes unused, then twelve coded bits
SymbolIDData(l1, l2, l32, p1, p2) ==
    PackNibbles([j \in 1..runCodesSize |->
                    CASE j = 2 -> l1 [] j = 3 -> l2 [] j = 33 -> l32 [] OTHER -> 0]
                \o <<p1, p2, 0>>)

HuffmanInput(kind, data, n) ==
    [Options(data) EXCEPT !.kind = kind, !.GlobalData = <<n>>]

HuffmanInputs ==
    {HuffmanInput("standard", <<>>, idx) : idx \in 0..16}
       \cup {HuffmanInput("custom", CustomData(oob, high, b1, b2), 0) :
                oob \in 0..1, high \in 1..2, b1 \in 0..255, b2 \in {0, 192}}
       \cup {HuffmanInput("custom", <<2, 0, 0, 0, 0, 0, 0, 0, 1>>, 0)}
       \cup {HuffmanInput("symbolID", SymbolIDData(l1, l2, l32, p1, p2), n) :
                l1 \in 0..MaxRunLength, l2 \in 0..MaxRunLength,
                l32 \in 0..MaxRunLength, p1 \in 0..15, p2 \in {0, 5, 15},
                n \in 2..MaxSymbols}

InitHuffman ==
    /\ input \in HuffmanInputs
    /\ created = FALSE
    /\ ctx = Nil
    /\ hist = <<>>
    /\ everErr = FALSE
    /\ cache = <<>>
    /\ heap = <<>>
    /\ stored = <<>>
    /\ touched = <<>>
    /\ cstep = <<>>

NewBitStream(data) == [buf |-> data, byteIx |-> 0, bitIx |-> 0]

HuffmanBuilt(op, err, codes) ==
    /\ hist' = <<[op |-> op, err |-> err, codes |-> codes]>>
    /\ everErr' = err
    /\ UNCHANGED <<input, created, ctx, cache, heap, stored, touched, cstep>>

CallNewStandardHuffmanTable ==
    /\ input.kind = "standard" /\ hist = <<>>
    /\ Let(NewStandardHuffmanTable(input.GlobalData[1]), LAMBDA r :
           HuffmanBuilt("NewStandardHuffmanTable", r.err, r.ht.codes))

\* parseTablesSegment
CallNewHuffmanTableFromStream ==
    /\ input.kind = "custom" /\ hist = <<>>
    /\ Let(NewHuffmanTableFromStream(NewBitStream(input.SrcData)), LAMBDA r :
           HuffmanBuilt("NewHuffmanTableFromStream", r.err, r.ht.codes))

CallDecodeSymbolIDHuffmanTable ==
    /\ input.kind = "symbolID" /\ hist = <<>>
    /\ Let(decodeSymbolIDHuffmanTable(NewBitStream(input.SrcData),
                                      input.GlobalData[1]), LAMBDA r :
           HuffmanBuilt("decodeSymbolIDHuffmanTable", r.err, r.codes))

NextHuffman ==
    \/ CallNewStandardHuffmanTable
    \/ CallNewHuffmanTableFromStream
    \/ CallDecodeSymbolIDHuffmanTable

SpecHuffman == InitHuffman /\ [][NextHuffman]_vars

\* a table has been accepted
TableAccepted ==
    /\ input.kind \in {"standard", "custom", "symbolID"}
    /\ hist # <<>>
    /\ ~hist[1].err

\* the entries of the accepted table whose code length is not zero
Assigned == {k \in 1..Len(hist[1].codes) : hist[1].codes[k].CodeLength # 0}

PairsDistinct ==
    \A j, k \in Assigned :
        j # k => hist[1].codes[j] # hist[1].codes[k]

\* the sum of 2^(m - length) over the entries e, for m the largest length
RECURSIVE KraftSum(_, _, _)
KraftSum(codes, e, m) ==
    IF e = {} THEN 0
    ELSE LET k == CHOOSE x \in e : TRUE
         IN  Pow2(m - codes[k].CodeLength) + KraftSum(codes, e \ {k}, m)

KraftHolds ==
    KraftSum(hist[1].codes, Assigned, MaxCodeLength(hist[1].codes))
       <= Pow2(MaxCodeLength(hist[1].codes))

\* C20: for every Huffman table the decoder accepts (standard, custom from
\* a tables segment, or per-region symbol-ID table), the entries with
\* non-zero code length get pairwise distinct (length, code) pairs and the
\* sum of 2^-length over them is at most 1.
C20_DistinctAndKraft == TableAccepted => PairsDistinct /\ KraftHolds

\* the pairs of an accepted table are distinct
AcceptedPairsDistinct == TableAccepted => PairsDistinct

\* the standard tables keep the sum within 1
StandardKraft == TableAccepted /\ input.kind = "standard" => KraftHolds

\* a custom table and a symbol ID table whose sum is above 1
CustomOverfull == TableAccepted /\ input.kind = "custom" /\ ~KraftHolds
SymbolIDOverfull == TableAccepted /\ input.kind = "symbolID" /\ ~KraftHolds

(***************************************************************************)
(* The generic region decoding procedure on its own: StartDecodeArith and  *)
(* ContinueDecode on a procedure with the standard adaptive pixels, which  *)
(* takes the byte-at-a-time rows, beside the same decode with UseSkip set  *)
(* and no skip bitmap, which takes the per-pixel rows.                     *)
(***************************************************************************)

MaxGenericHeight == 4      \* rows of a region
MaxPauses == 2             \* ShouldPause answers of a pause indicator

\* the standard adaptive pixels of a template
StandardGBAt(template) ==
    CASE template = 0 -> <<3, -1, -3, -1, 2, -2, -2, -2>>
      [] template = 1 -> <<3, -1, 0, 0, 0, 0, 0, 0>>
      [] OTHER -> <<2, -1, 0, 0, 0, 0, 0, 0>>

GenericWidths == {1, 7, 8, 9, 16, 17}

GenericCoded ==
    {<<200, 17, 60, 255, 172>>, <<38, 112, 9, 255, 172>>,
     <<0, 0, 0, 0, 0, 0, 0, 0>>, <<132, 199, 59, 252, 225, 161, 197, 29>>,
     <<77, 20, 181, 3, 96, 240, 15, 129>>, <<255, 172>>}

GenericProc(template, tpgdon, w, h) ==
    [NewGRDProc EXCEPT !.GBTemplate = template, !.TPGDON = tpgdon,
                       !.GBWidth = w, !.GBHeight = h,
                       !.GBAt = StandardGBAt(template)]

\* pause indicators: none, or one that answers TRUE after its first or its
\* second row
GenericPauses == {Nil} \cup {Some([i \in 1..n |-> i = n]) : n \in 1..MaxPauses}

GenericInputs ==
    {[Options(coded) EXCEPT !.kind = "generic",
                            !.GlobalData = <<GenericProc(template, tpgdon, w, h), pause>>] :
        template \in 0..3, tpgdon \in BOOLEAN, w \in GenericWidths,
        h \in 1..MaxGenericHeight, coded \in GenericCoded, pause \in GenericPauses}

InitGeneric ==
    /\ input \in GenericInputs
    /\ created = FALSE
    /\ ctx = Nil
    /\ hist = <<>>
    /\ everErr = FALSE
    /\ cache = <<>>
    /\ heap = <<>>
    /\ stored = <<>>
    /\ touched = <<>>
    /\ cstep = <<>>

\* a decode about to start on the coded bytes
GenericStart(template) ==
    Let(NewArithDecoder([buf |-> input.SrcData, byteIx |-> 0, bitIx |-> 0]),
        LAMBDA a :
        [d |-> a.d, s |-> a.s, cx |-> MakeContexts(huffContextSize(template)),
         img |-> EmptyImage, ltp |-> 0, err |-> FALSE, panic |-> FALSE])

\* the same procedure made to take the per-pixel rows
PerPixel(p) == [p EXCEPT !.UseSkip = TRUE, !.Skip = Nil]

CallStartDecodeArith ==
    /\ hist = <<>>
    /\ LET p == input.GlobalData[1]
           fast == StartDecodeArith(p, Nil, GenericStart(p.GBTemplate),
                                    input.GlobalData[2])
           ref == StartDecodeArith(PerPixel(p), Nil, GenericStart(p.GBTemplate), Nil)
       IN  /\ hist' = <<[op |-> "StartDecodeArith",
                         err |-> fast.status = CodecStatusError,
                         fast |-> fast, ref |-> ref]>>
           /\ everErr' = (fast.status = CodecStatusError)
    /\ UNCHANGED <<input, created, ctx, cache, heap, stored, touched, cstep>>

CallContinueDecode ==
    /\ hist # <<>>
    /\ hist[Len(hist)].fast.status = CodecStatusToBeContinued
    /\ LET last == hist[Len(hist)].fast
           fast == ContinueDecode(last.p, last.slot, last.G, last.pause)
       IN  /\ hist' = Append(hist, [op |-> "ContinueDecode",
                                    err |-> fast.status = CodecStatusError,
                                    fast |-> fast, ref |-> hist[1].ref])
           /\ everErr' = (fast.status = CodecStatusError)
    /\ UNCHANGED <<input, created, ctx, cache, heap, stored, touched, cstep>>

NextGeneric == CallStartDecodeArith \/ CallContinueDecode

SpecGeneric == InitGeneric /\ [][NextGeneric]_vars

\* the byte-at-a-time decode has come to its end, or failed
GenericEnded ==
    /\ input.kind = "generic"
    /\ hist # <<>>
    /\ hist[Len(hist)].fast.status # CodecStatusToBeContinued

FastRun == hist[Len(hist)].fast
RefRun == hist[Len(hist)].ref

\* the two decodes end alike: the same status, and when they finish the same
\* bitmap, the same contexts (every decision was taken under the same
\* context index) and the same decoder
SameOutcome ==
    /\ FastRun.status = RefRun.status
    /\ FastRun.status = CodecStatusFinished
          => /\ FastRun.G.img = RefRun.G.img
             /\ FastRun.G.cx = RefRun.G.cx
             /\ FastRun.G.d = RefRun.G.d

\* C21: for each template 0 to 3 with the standard adaptive-pixel placement
\* and use_skip false, the byte-at-a-time fast path builds the same context
\* index for every pixel and produces exactly the same bitmap as the
\* per-pixel reference path, for every image width and height and both in
\* one-shot and in paused-and-resumed decoding.
C21_FastEqualsReference == GenericEnded => SameOutcome

\* the two decodes end alike unless the byte-at-a-time rows have panicked
FastEqualsReferenceUnlessPanic ==
    GenericEnded /\ ~FastRun.G.panic => SameOutcome

\* a decode of both kinds that has paused
FastPausedAndResumed ==
    /\ GenericEnded
    /\ Len(hist) > 1
    /\ FastRun.status = CodecStatusFinished
    /\ FastRun.p.GBWidth = 17 /\ FastRun.p.GBHeight = MaxGenericHeight
    /\ \E x \in 0..16 : GetPixel(FastRun.G.img, x, 3) # 0

\* row 0 has been decoded by the run r, and nothing after it, with the
\* typical prediction flag left at 1
RowZeroPredicted(r) ==
    /\ r.p.TPGDON
    /\ r.status # CodecStatusError
    /\ r.p.loopIndex = 1
    /\ r.p.ltp = 1

RowIsZero(img, y) == \A x \in 0..(img.width - 1) : GetPixel(img, x, y) = 0

\* C22: when typical prediction is on and the ltp flag is 1 on row 0, the
\* row is produced as a copy of an all-zero previous row and no read or
\* write falls outside the image buffer; this holds for every template and
\* for both the fast path and the per-pixel path.
C22_RowZeroPrediction ==
    input.kind = "generic" /\ hist # <<>>
    => \A r \in {hist[1].fast, hist[1].ref} :
          /\ ~r.G.panic
          /\ RowZeroPredicted(r) => RowIsZero(r.G.img, 0)

\* the rows of the per-pixel path and of the templates 0 to 2 do as C22 says
RowZeroPredictionElsewhere ==
    input.kind = "generic" /\ hist # <<>>
    => /\ ~hist[1].ref.G.panic
       /\ RowZeroPredicted(hist[1].ref) => RowIsZero(hist[1].ref.G.img, 0)
       /\ input.GlobalData[1].GBTemplate # 3
             => /\ ~hist[1].fast.G.panic
                /\ RowZeroPredicted(hist[1].fast) => RowIsZero(hist[1].fast.G.img, 0)

\* both kinds of row have met the flag at 1 on row 0
RowZeroPredictedBoth ==
    /\ input.kind = "generic" /\ hist # <<>>
    /\ input.GlobalData[1].GBTemplate = 0
    /\ RowZeroPredicted(hist[1].fast)
    /\ RowZeroPredicted(hist[1].ref)

\* a text region decode in which a glyph was placed clear of the region
GlyphMissed == input.kind = "text" /\ hist # <<>> /\ hist[1].T.missed

\* C23: composing a region onto the page, or a text-region glyph onto the
\* region bitmap, at a position where the placed rectangle does not
\* intersect the destination leaves the destination unchanged and does not
\* make the decode fail.
C23_MissedGlyphIsNoFailure ==
    GlyphMissed => ~hist[1].err

\* what holds in its place: the glyph that misses the region fails the
\* decode
MissedGlyphFails == GlyphMissed => hist[1].err

\* composeToInternal on a rectangle that misses the destination answers
\* false and leaves the destination as it was
MissedComposeRefused ==
    (input.kind = "compose" /\ hist # <<>>
        /\ Misses(ComposeX, ComposeY, RectWidth(ComposeRect),
                  RectHeight(ComposeRect), ComposeDst))
    => hist[1].err /\ hist[1].dst = ComposeDst

(***************************************************************************)
(* HuffmanDecoder.Decode (huffman_decoder.go) and two of its callers: the  *)
(* export run lengths of a symbol dictionary and the DS value of a text    *)
(* region.  The streams of the model are a few bytes long, so the extra    *)
(* bits of a row, which ReadNBits cuts at the end of the stream, stay      *)
(* below 2^24.                                                             *)
(***************************************************************************)

\* the first row whose code is the bits read so far, 0 when there is none
MatchRow(table, bits, code) ==
    LET m == {i \in 1..Len(table.codes) :
                 table.codes[i].CodeLength = bits /\ table.codes[i].Code = code}
    IN  IF m = {} THEN 0 ELSE CHOOSE i \in m : \A k \in m : i <= k

\* the value of row i once its code is matched: [err, v, s, oobRow]
RowValue(s, table, i) ==
    IF table.hasOOB /\ i = Len(table.codes)
    THEN [err |-> FALSE, v |-> JBig2OOB, s |-> s, oobRow |-> TRUE]
    ELSE Let(IF table.rangeLen[i] > 0 THEN ReadNBits(s, table.rangeLen[i])
             ELSE [ok |-> TRUE, v |-> 0, s |-> s], LAMBDA e :
             IF ~e.ok THEN [err |-> TRUE, v |-> 0, s |-> e.s, oobRow |-> FALSE]
             ELSE [err |-> FALSE,
                   v |-> IF i = Len(table.codes) + 1
                                   - (IF table.hasOOB THEN 3 ELSE 2)
                         THEN table.rangeLow[i] - e.v
                         ELSE table.rangeLow[i] + e.v,
                   s |-> e.s, oobRow |-> FALSE])

\* HuffmanDecoder.Decode: [err, v, s, oobRow], oobRow (history) telling
\* that the row matched was the out-of-band row
RECURSIVE HuffmanDecoderDecode(_, _, _, _)
HuffmanDecoderDecode(s, table, code, bits) ==
    Let(Read1Bit(s), LAMBDA b :
        IF ~b.ok THEN [err |-> TRUE, v |-> 0, s |-> b.s, oobRow |-> FALSE]
        ELSE Let(MatchRow(table, bits + 1, code * 2 + b.v), LAMBDA i :
                 IF i # 0 THEN RowValue(b.s, table, i)
                 ELSE HuffmanDecoderDecode(b.s, table, code * 2 + b.v, bits + 1)))

\* decodeExportFlagsHuffman: [err, flags, s, treated, matched]; treated
\* tells that a run was taken for out of band, matched that the decoder
\* had matched the out-of-band row for it
RECURSIVE ExportRunsHuffman(_, _, _, _, _, _, _, _)
ExportRunsHuffman(p, s, table, total, index, curFlag, exported, flags) ==
    IF index >= total
    THEN [err |-> exported > p.SDNUMEXSYMS, flags |-> flags, s |-> s,
          treated |-> FALSE, matched |-> FALSE]
    ELSE Let(HuffmanDecoderDecode(s, table, 0, 0), LAMBDA r :
         IF r.err
         THEN [err |-> TRUE, flags |-> flags, s |-> r.s,
               treated |-> FALSE, matched |-> FALSE]
         ELSE IF r.v = JBig2OOB
         THEN [err |-> TRUE, flags |-> flags, s |-> r.s,
               treated |-> TRUE, matched |-> r.oobRow]
         ELSE IF r.v < 0 \/ r.v > total - index
         THEN [err |-> TRUE, flags |-> flags, s |-> r.s,
               treated |-> FALSE, matched |-> FALSE]
         ELSE ExportRunsHuffman(p, r.s, table, total, index + r.v, ~curFlag,
                                IF curFlag THEN exported + r.v ELSE exported,
                                [k \in 1..total |->
                                    IF k > index /\ k <= index + r.v THEN curFlag
                                    ELSE flags[k]]))

decodeExportFlagsHuffman(p, s, table, total) ==
    ExportRunsHuffman(p, s, table, total, 0, FALSE, 0, [k \in 1..total |-> FALSE])

\* decodeHuffmanDS: [err, ok, v, s, treated, matched]
decodeHuffmanDS(s, table) ==
    Let(HuffmanDecoderDecode(s, table, 0, 0), LAMBDA r :
        [err |-> r.err, ok |-> ~r.err /\ r.v # JBig2OOB,
         v |-> IF r.err \/ r.v = JBig2OOB THEN 0 ELSE r.v, s |-> r.s,
         treated |-> ~r.err /\ r.v = JBig2OOB, matched |-> r.oobRow])

MaxExportRuns == 4      \* symbols whose export flags are decoded

HuffmanStreams == {<<b1, b2>> : b1 \in 0..255, b2 \in {0, 165}}

HuffmanDecodeInputs ==
    {[Options(bytes) EXCEPT !.kind = "huffman", !.GlobalData = <<total, nex>>] :
        bytes \in HuffmanStreams, total \in 1..MaxExportRuns,
        nex \in {1, MaxExportRuns}}

InitHuffmanDecode ==
    /\ input \in HuffmanDecodeInputs
    /\ created = FALSE
    /\ ctx = Nil
    /\ hist = <<>>
    /\ everErr = FALSE
    /\ cache = <<>>
    /\ heap = <<>>
    /\ stored = <<>>
    /\ touched = <<>>
    /\ cstep = <<>>

\* the export stage of SDDProc.DecodeHuffman, on standard table 1
CallDecodeExportFlagsHuffman ==
    /\ hist = <<>>
    /\ Let(decodeExportFlagsHuffman(
               [NewSDDProc EXCEPT !.SDHUFF = TRUE,
                                  !.SDNUMEXSYMS = input.GlobalData[2]],
               NewBitStream(input.SrcData), NewStandardHuffmanTable(1).ht,
               input.GlobalData[1]), LAMBDA r :
           /\ hist' = <<[op |-> "decodeExportFlagsHuffman", err |-> r.err,
                         v |-> r.flags, treated |-> r.treated,
                         matched |-> r.matched, offset |-> r.s.byteIx * 8 + r.s.bitIx]>>
           /\ everErr' = r.err)
    /\ UNCHANGED <<input, created, ctx, cache, heap, stored, touched, cstep>>

\* the DS value of a text region, on standard table 8
CallDecodeHuffmanDS ==
    /\ hist = <<>>
    /\ Let(decodeHuffmanDS(NewBitStream(input.SrcData),
                           NewStandardHuffmanTable(8).ht), LAMBDA r :
           /\ hist' = <<[op |-> "decodeHuffmanDS", err |-> r.err,
                         v |-> <<r.v>>, treated |-> r.treated,
                         matched |-> r.matched, offset |-> r.s.byteIx * 8 + r.s.bitIx]>>
           /\ everErr' = r.err)
    /\ UNCHANGED <<input, created, ctx, cache, heap, stored, touched, cstep>>

NextHuffmanDecode == CallDecodeExportFlagsHuffman \/ CallDecodeHuffmanDS

SpecHuffmanDecode == InitHuffmanDecode /\ [][NextHuffmanDecode]_vars

HuffmanDecoded == input.kind = "huffman" /\ hist # <<>>

\* C24: the out-of-band result of a Huffman decode can be told apart from
\* every in-band result: a code that matches a non-OOB row is never treated
\* as out of band by a caller, whatever integer value (including 1) that
\* row decodes to.
C24_OutOfBandOnlyFromItsRow ==
    HuffmanDecoded => (hist[1].treated => hist[1].matched)

\* the out-of-band row is taken for out of band
OutOfBandRowTreated ==
    HuffmanDecoded => (hist[1].matched => hist[1].treated)

\* the out-of-band row of table 8 has been matched
OutOfBandRowMet == HuffmanDecoded /\ hist[1].matched

\* an export run has been taken for out of band
ExportRunTreated ==
    HuffmanDecoded /\ hist[1].op = "decodeExportFlagsHuffman" /\ hist[1].treated

\* export flags have been decoded with a flag of each kind
ExportFlagsDecoded ==
    HuffmanDecoded /\ hist[1].op = "decodeExportFlagsHuffman" /\ ~hist[1].err
        /\ TRUE \in {hist[1].v[k] : k \in 1..Len(hist[1].v)}
        /\ FALSE \in {hist[1].v[k] : k \in 1..Len(hist[1].v)}

(***************************************************************************)
(* The symbol IDs of a Huffman-coded text region: parseTextRegionSegment   *)
(* reads the symbol ID table, and DecodeHuffman reads a symbol ID with     *)
(* decodeHuffmanSymID.                                                     *)
(***************************************************************************)

\* the smallest codeLen with 2^codeLen >= numSyms
RECURSIVE SymCodeLen(_, _)
SymCodeLen(numSyms, codeLen) ==
    IF Pow2(codeLen) < numSyms THEN SymCodeLen(numSyms, codeLen + 1) ELSE codeLen

\* what parseTextRegionSegment sets for the symbol IDs of proc: [err, s, proc]
textRegionSymbolCodes(proc, s) ==
    IF proc.SBHUFF
    THEN Let(decodeSymbolIDHuffmanTable(s, proc.SBNumSyms), LAMBDA r :
             IF r.err THEN [err |-> TRUE, s |-> r.s, proc |-> proc]
             ELSE [err |-> FALSE, s |-> AlignByte(r.s),
                   proc |-> [proc EXCEPT !.SBSymCodes = r.codes]])
    ELSE [err |-> FALSE, s |-> s,
          proc |-> [proc EXCEPT !.SBSymCodeLen = SymCodeLen(proc.SBNumSyms, 0)]]

RECURSIVE SymIDBits(_, _, _)
SymIDBits(s, n, symID) ==
    IF n = 0 THEN [err |-> FALSE, v |-> symID, s |-> s]
    ELSE Let(Read1Bit(s), LAMBDA b :
             IF ~b.ok THEN [err |-> TRUE, v |-> 0, s |-> b.s]
             ELSE SymIDBits(b.s, n - 1, symID * 2 + b.v))

\* [err, v, s]
decodeHuffmanSymID(p, s) == SymIDBits(s, p.SBSymCodeLen, 0)

SymbolIDInputs == {i \in HuffmanInputs : i.kind = "symbolID"}

InitSymbolID ==
    /\ input \in SymbolIDInputs
    /\ created = FALSE
    /\ ctx = Nil
    /\ hist = <<>>
    /\ everErr = FALSE
    /\ cache = <<>>
    /\ heap = <<>>
    /\ stored = <<>>
    /\ touched = <<>>
    /\ cstep = <<>>

BitPos(s) == s.byteIx * 8 + s.bitIx

\* the symbol ID table of a Huffman-coded text region, then a symbol ID
CallReadSymbolID ==
    /\ hist = <<>>
    /\ Let(textRegionSymbolCodes(
               [NewTRDProc EXCEPT !.SBHUFF = TRUE, !.SBNumSyms = input.GlobalData[1]],
               NewBitStream(input.SrcData)), LAMBDA r :
           IF r.err
           THEN /\ hist' = <<[op |-> "decodeHuffmanSymID", err |-> TRUE, proc |-> r.proc,
                              symID |-> 0, bits |-> 0]>>
                /\ everErr' = TRUE
           ELSE Let(decodeHuffmanSymID(r.proc, r.s), LAMBDA id :
                    /\ hist' = <<[op |-> "decodeHuffmanSymID", err |-> id.err,
                                  proc |-> r.proc, symID |-> id.v,
                                  bits |-> BitPos(id.s) - BitPos(r.s)]>>
                    /\ everErr' = id.err))
    /\ UNCHANGED <<input, created, ctx, cache, heap, stored, touched, cstep>>

NextSymbolID == CallReadSymbolID

SpecSymbolID == InitSymbolID /\ [][NextSymbolID]_vars

SymbolIDRead == input.kind = "symbolID" /\ hist # <<>> /\ ~hist[1].err

\* C25: in Huffman mode each text-region symbol ID is decoded with the
\* per-region symbol-ID Huffman table built from the 35 run-code lengths
\* read from the segment, so the number of bits consumed for a symbol ID is
\* the code length that table assigns to that symbol.
C25_SymbolIDByItsTable ==
    SymbolIDRead
    => /\ hist[1].symID < Len(hist[1].proc.SBSymCodes)
       /\ hist[1].bits = hist[1].proc.SBSymCodes[hist[1].symID + 1].CodeLength

\* what the code does: no bit is read and the symbol ID is 0
SymbolIDIsZero == SymbolIDRead => hist[1].bits = 0 /\ hist[1].symID = 0

(***************************************************************************)
(* The height classes of a symbol dictionary: SDDProc.DecodeArith on the   *)
(* coded data of a dictionary of one or two new symbols.                   *)
(***************************************************************************)

MaxNewSymbols == 2

\* the first byte takes the first height delta through 3 down to -3 and
\* out of band; the longer streams code a whole dictionary of one symbol
HeightCoded ==
    {<<a, 255>> : a \in 86..214}
    \cup {<<165, 13, 255, 172>>, <<166, 245, 255, 172>>, <<168, 77, 255, 172>>,
          <<169, 165, 255, 172>>, <<170, 253, 255, 172>>}

SymbolDictInputs ==
    {[Options(code) EXCEPT
         !.kind = "heights",
         !.GlobalData = <<[NewSDDProc EXCEPT !.SDTEMPLATE = template,
                                             !.SDNUMNEWSYMS = n,
                                             !.SDNUMEXSYMS = n]>>] :
        code \in HeightCoded, template \in {0, 3}, n \in 1..MaxNewSymbols}

InitSymbolDict ==
    /\ input \in SymbolDictInputs
    /\ created = FALSE
    /\ ctx = Nil
    /\ hist = <<>>
    /\ everErr = FALSE
    /\ cache = <<>>
    /\ heap = <<>>
    /\ stored = <<>>
    /\ touched = <<>>
    /\ cstep = <<>>

CallSDDDecodeArith ==
    /\ hist = <<>>
    /\ Let(NewArithDecoder(NewBitStream(input.SrcData)), LAMBDA a :
       Let(SDDProcDecodeArith(input.GlobalData[1],
               [d |-> a.d, s |-> a.s, gb |-> MakeContexts(0), heap |-> <<>>,
                iadH |-> NewArithIntDecoder, iadW |-> NewArithIntDecoder,
                iaex |-> NewArithIntDecoder, err |-> FALSE, fault |-> "none"]),
           LAMBDA r :
           /\ hist' = <<[op |-> "SDDProc.DecodeArith", err |-> r.S.err,
                         oob |-> r.oob, export |-> r.export,
                         symbols |-> IF IsNil(r.dict) THEN <<>>
                                     ELSE Val(r.dict).symbols]>>
           /\ everErr' = r.S.err))
    /\ UNCHANGED <<input, created, ctx, cache, heap, stored, touched, cstep>>

NextSymbolDict == CallSDDDecodeArith

SpecSymbolDict == InitSymbolDict /\ [][NextSymbolDict]_vars

HeightsDecoded == input.kind = "heights" /\ hist # <<>>

\* C26: in symbol-dictionary decoding, an out-of-band delta_h ends the
\* height loop without an error and decoding goes on to the export
\* run-length stream.
C26_OutOfBandHeightEndsLoop ==
    HeightsDecoded /\ hist[1].oob => ~hist[1].err /\ hist[1].export

\* C26 as the code has it: an out-of-band delta_h makes the decode fail
\* before the export run lengths are read; they are read when the height
\* loop has ended without an error.
C26_OutOfBandHeightFails ==
    HeightsDecoded
    => /\ hist[1].oob => hist[1].err /\ ~hist[1].export
       /\ ~hist[1].err => hist[1].export /\ ~hist[1].oob

OutOfBandHeightMet == HeightsDecoded /\ hist[1].oob /\ hist[1].err

DictionaryDecoded == HeightsDecoded /\ ~hist[1].err /\ hist[1].export

(***************************************************************************)
(* The arithmetic decoder, decision by decision: NewArithDecoder on a      *)
(* short stream, then Decode with one of two contexts, also after the      *)
(* decoder is complete.  hist holds the decoder, the stream and the        *)
(* contexts after the last call.                                           *)
(***************************************************************************)

MaxDecodes == 16
MaxArithLength == 2

ArithBytes == {0, 143, 144, 255}

ArithStreams ==
    UNION {[1..n -> ArithBytes] : n \in 0..MaxArithLength}

ArithInputs == {[Options(data) EXCEPT !.kind = "arith"] : data \in ArithStreams}

InitArith ==
    /\ input \in ArithInputs
    /\ created = FALSE
    /\ ctx = Nil
    /\ hist = <<>>
    /\ everErr = FALSE
    /\ cache = <<>>
    /\ heap = <<>>
    /\ stored = <<>>
    /\ touched = <<>>
    /\ cstep = <<>>

CallNewArithDecoder ==
    /\ hist = <<>>
    /\ Let(NewArithDecoder(NewBitStream(input.SrcData)), LAMBDA r :
           hist' = <<[op |-> "NewArithDecoder", err |-> FALSE, d |-> r.d,
                      s |-> r.s, cx |-> <<NewArithContext, NewArithContext>>,
                      which |-> 0, n |-> 0]>>)
    /\ UNCHANGED <<input, created, ctx, everErr, cache, heap, stored, touched,
                   cstep>>

CallDecode ==
    /\ hist # <<>>
    /\ hist[1].n < MaxDecodes
    /\ \E which \in 1..2 :
           Let(Decode(hist[1].d, hist[1].s, hist[1].cx[which]), LAMBDA r :
               /\ hist' = <<[op |-> "Decode", err |-> ~r.ok, d |-> r.d, s |-> r.s,
                             cx |-> [hist[1].cx EXCEPT ![which] = r.e],
                             which |-> which, n |-> hist[1].n + 1]>>
               /\ everErr' = (everErr \/ ~r.ok))
    /\ UNCHANGED <<input, created, ctx, cache, heap, stored, touched, cstep>>

NextArith == CallNewArithDecoder \/ CallDecode

SpecArith == InitArith /\ [][NextArith]_vars

\* how far the stream state has moved
StreamRank(d) == IF d.complete THEN 3 ELSE d.state

ArithCalled == input.kind = "arith" /\ hist # <<>>

\* C27: the arithmetic decoder's stream state only moves forward along
\* data_available, decoding_finished, looping, complete; once complete is
\* set it is never cleared, and every decode call made after that fails
\* without changing the decoder state or the context passed in.
C27_StreamStateForward ==
    [][ArithCalled /\ hist' # <<>>
       => /\ StreamRank(hist'[1].d) >= StreamRank(hist[1].d)
          /\ hist'[1].d.state >= hist[1].d.state
          /\ hist[1].d.complete
             => /\ hist'[1].d.complete
                /\ hist'[1].err
                /\ hist'[1].d = hist[1].d
                /\ hist'[1].s = hist[1].s
                /\ hist'[1].cx = hist[1].cx]_vars

\* a decode call refused by a decoder that went through every stream state
C27_Witness ==
    /\ ArithCalled
    /\ hist[1].op = "Decode"
    /\ hist[1].err
    /\ hist[1].d.complete
    /\ hist[1].d.state = streamLooping

\* complete set by the end of the buffer, the stream state still at its start
CompleteAtEndOfBuffer ==
    ArithCalled /\ hist[1].d.complete /\ hist[1].d.state = streamDataAvailable

(***************************************************************************)
(* Region segments outside a page: a stream with a region segment of each  *)
(* kind ahead of the page information, behind a segment of unknown type    *)
(* ahead of the page information, or behind the end of the page.           *)
(***************************************************************************)

RegionTypes ==
    {segmentTypeTextRegionImmediate, segmentTypeTextRegionImmediateLossless,
     segmentTypeTextRegionRefine,
     segmentTypeHalftoneRegion, segmentTypeHalftoneRegionImmediate,
     segmentTypeHalftoneRegionImmediateLossless,
     segmentTypeGenericRegion, segmentTypeGenericRegionImmediate,
     segmentTypeGenericRegionImmediateLossless,
     segmentTypeRefinementRegion, segmentTypeRefinementRegionImmediate,
     segmentTypeRefinementRegionImmediateLossless}

RegionAhead(ty) ==
    FileHeaderBytes \o SegBytes(0, ty, 1, <<>>) \o PageInfoBytes(1, 8, 3, 0, 0)
    \o EndOfPageBytes(2) \o EndOfFileBytes(3)

RegionBehindUnknown(ty) ==
    FileHeaderBytes \o SegBytes(0, 62, 1, <<1, 2>>) \o SegBytes(1, ty, 1, <<>>)
    \o PageInfoBytes(2, 8, 3, 0, 0) \o EndOfPageBytes(3) \o EndOfFileBytes(4)

RegionBehindPage(ty) ==
    FileHeaderBytes \o PageInfoBytes(0, 8, 3, 0, 0) \o EndOfPageBytes(1)
    \o SegBytes(2, ty, 1, <<>>) \o PageInfoBytes(3, 8, 3, 0, 0)
    \o EndOfPageBytes(4) \o EndOfFileBytes(5)

OutsideSources(ty) ==
    {RegionAhead(ty), RegionBehindUnknown(ty), RegionBehindPage(ty)}

OutsideInputs ==
    UNION {{[Options(src) EXCEPT !.kind = "outside", !.type = ty] :
               src \in OutsideSources(ty)} : ty \in RegionTypes}
    \cup RegionInputs \cup {BlankPage(8, 3)}

InitOutside ==
    /\ input \in OutsideInputs
    /\ created = FALSE
    /\ ctx = Nil
    /\ hist = <<>>
    /\ everErr = FALSE
    /\ cache = <<>>
    /\ heap = <<>>
    /\ stored = <<>>
    /\ touched = <<>>
    /\ cstep = <<>>

SpecOutside == InitOutside /\ [][Next]_vars

\* the call of this step met a region segment while no page was active
MetOutsidePage ==
    /\ ~IsNil(ctx) /\ ~IsNil(ctx')
    /\ Val(ctx').outside > Val(ctx).outside

\* C28: a text, halftone, generic or refinement region segment met while no
\* page is active (before any page-info segment, or after an end-of-page
\* segment and before the next page-info segment) makes the decode fail.
C28_RegionOutsidePageFails ==
    [][MetOutsidePage => Last(hist').err /\ ~Val(ctx').inPage]_vars

\* a failed call that met a region segment behind the end of a page
C28_Witness ==
    /\ input.kind = "outside"
    /\ ~IsNil(ctx)
    /\ C.outside > 0
    /\ Last(hist).err
    /\ Len(C.headers) >= 3

\* every kind of region segment is met outside a page
RegionMetOutside ==
    input.kind = "outside" /\ ~IsNil(ctx) /\ C.outside > 0

(***************************************************************************)
(* The progress of the segment loop of DecodeSequential.                   *)
(***************************************************************************)

Spans == IF IsNil(ctx) THEN <<>> ELSE C.spans

\* C29: decode_all terminates on every finite input when no pause is
\* requested: each iteration of the segment loop ends with the stream offset
\* strictly greater than at the start of the iteration, for every
\* data_length value including ones that overflow 32 bits when added to the
\* data offset.
C29_EachIterationAdvances ==
    \A i \in 1..Len(Spans) : ~Spans[i].resumed => Spans[i].to > Spans[i].from

\* DecodeAll has gone round the loop past a segment of unknown type
C29_Witness ==
    /\ input.kind = "skipped"
    /\ Len(Spans) >= 2
    /\ Last(hist).op = "DecodeAll"

\* a data length that passes 2^32 - 1 from the data offset ends the loop
OverflowEndsLoop ==
    UnknownTypeMet /\ OffsetOverflow
    => Len(Spans) < 2 /\ (IsNil(C.currentSegment) => everErr)

OverflowMet == UnknownTypeMet /\ OffsetOverflow /\ everErr

\* an iteration that resumes a paused segment ends no earlier than it began
ResumedIterationsHold ==
    \A i \in 1..Len(Spans) : Spans[i].resumed => Spans[i].to >= Spans[i].from

ResumedIterationMet == \E i \in 1..Len(Spans) : Spans[i].resumed

(***************************************************************************)
(* The MMR decoder (internal/fax/faxmodule.go), as far as it moves the bit *)
(* position.  A line is the sequence of the bits of its bytes, most        *)
(* significant first; a set bit is white.                                  *)
(***************************************************************************)

faxBlackRunIns ==
    <<0, 2, 2, 3, 0, 3, 2, 0, 2, 2, 1, 0, 3, 4, 0, 2, 2, 6, 0, 3, 5, 0, 1,
    3, 7, 0, 2, 4, 9, 0, 5, 8, 0, 3, 4, 10, 0, 5, 11, 0, 7, 12, 0, 2, 4, 13,
    0, 7, 14, 0, 1, 24, 15, 0, 5, 8, 18, 0, 15, 64, 0, 23, 16, 0, 24, 17, 0,
    55, 0, 0, 10, 8, 0, 7, 12, 64, 7, 13, 128, 7, 23, 24, 0, 24, 25, 0, 40,
    23, 0, 55, 22, 0, 103, 19, 0, 104, 20, 0, 108, 21, 0, 54, 18, 192, 7,
    19, 0, 8, 20, 64, 8, 21, 128, 8, 22, 192, 8, 23, 0, 9, 28, 64, 9, 29,
    128, 9, 30, 192, 9, 31, 0, 10, 36, 52, 0, 39, 55, 0, 40, 56, 0, 43, 59,
    0, 44, 60, 0, 51, 64, 1, 52, 128, 1, 53, 192, 1, 55, 53, 0, 56, 54, 0,
    82, 50, 0, 83, 51, 0, 84, 44, 0, 85, 45, 0, 86, 46, 0, 87, 47, 0, 88,
    57, 0, 89, 58, 0, 90, 61, 0, 91, 0, 1, 100, 48, 0, 101, 49, 0, 102, 62,
    0, 103, 63, 0, 104, 30, 0, 105, 31, 0, 106, 32, 0, 107, 33, 0, 108, 40,
    0, 109, 41, 0, 200, 128, 0, 201, 192, 0, 202, 26, 0, 203, 27, 0, 204,
    28, 0, 205, 29, 0, 210, 34, 0, 211, 35, 0, 212, 36, 0, 213, 37, 0, 214,
    38, 0, 215, 39, 0, 218, 42, 0, 219, 43, 0, 20, 74, 128, 2, 75, 192, 2,
    76, 0, 3, 77, 64, 3, 82, 0, 5, 83, 64, 5, 84, 128, 5, 85, 192, 5, 90, 0,
    6, 91, 64, 6, 100, 128, 6, 101, 192, 6, 108, 0, 2, 109, 64, 2, 114, 128,
    3, 115, 192, 3, 116, 0, 4, 117, 64, 4, 118, 128, 4, 119, 192, 4, 255>>

faxWhiteRunIns ==
    <<0, 0, 0, 6, 7, 2, 0, 8, 3, 0, 11, 4, 0, 12, 5, 0, 14, 6, 0, 15, 7, 0,
    6, 7, 10, 0, 8, 11, 0, 18, 128, 0, 19, 8, 0, 20, 9, 0, 27, 64, 0, 9, 3,
    13, 0, 7, 1, 0, 8, 12, 0, 23, 192, 0, 24, 128, 6, 42, 16, 0, 43, 17, 0,
    52, 14, 0, 53, 15, 0, 12, 3, 22, 0, 4, 23, 0, 8, 20, 0, 12, 19, 0, 19,
    26, 0, 23, 21, 0, 24, 28, 0, 36, 27, 0, 39, 18, 0, 40, 24, 0, 43, 25, 0,
    55, 0, 1, 42, 2, 29, 0, 3, 30, 0, 4, 45, 0, 5, 46, 0, 10, 47, 0, 11, 48,
    0, 18, 33, 0, 19, 34, 0, 20, 35, 0, 21, 36, 0, 22, 37, 0, 23, 38, 0, 26,
    31, 0, 27, 32, 0, 36, 53, 0, 37, 54, 0, 40, 39, 0, 41, 40, 0, 42, 41, 0,
    43, 42, 0, 44, 43, 0, 45, 44, 0, 50, 61, 0, 51, 62, 0, 52, 63, 0, 53, 0,
    0, 54, 64, 1, 55, 128, 1, 74, 59, 0, 75, 60, 0, 82, 49, 0, 83, 50, 0,
    84, 51, 0, 85, 52, 0, 88, 55, 0, 89, 56, 0, 90, 57, 0, 91, 58, 0, 100,
    192, 1, 101, 0, 2, 103, 128, 2, 104, 64, 2, 16, 152, 192, 5, 153, 0, 6,
    154, 64, 6, 155, 192, 6, 204, 192, 2, 205, 0, 3, 210, 64, 3, 211, 128,
    3, 212, 192, 3, 213, 0, 4, 214, 64, 4, 215, 128, 4, 216, 192, 4, 217, 0,
    5, 218, 64, 5, 219, 128, 5, 0, 3, 8, 0, 7, 12, 64, 7, 13, 128, 7, 10,
    18, 192, 7, 19, 0, 8, 20, 64, 8, 21, 128, 8, 22, 192, 8, 23, 0, 9, 28,
    64, 9, 29, 128, 9, 30, 192, 9, 31, 0, 10, 255>>

\* nextBit: the bit at pos of srcBuf
faxBit(srcBuf, pos) == Bit(srcBuf[(pos \div 8) + 1], 7 - (pos % 8))

\* the first position from startPos to endPos - 1 whose bit is bit, or -1
RECURSIVE FirstBitIn(_, _, _, _)
FirstBitIn(line, startPos, endPos, bit) ==
    IF startPos >= endPos THEN -1
    ELSE IF line[startPos + 1] = bit THEN startPos
    ELSE FirstBitIn(line, startPos + 1, endPos, bit)

\* findBit, for lines of fewer than 8 bytes.  The bytes are XORed with 0xFF
\* when bit is set and with 0 when it is not, and the first set bit of the
\* outcome is answered: the first bit of the line that is not bit.
findBit(line, maxPos, startPos, bit) ==
    IF startPos >= maxPos THEN maxPos
    ELSE LET inFirst == IF startPos % 8 # 0
                        THEN FirstBitIn(line, startPos, (startPos \div 8) * 8 + 8,
                                        1 - bit)
                        ELSE -1
             from == IF startPos % 8 # 0 THEN (startPos \div 8) * 8 + 8
                     ELSE startPos
             inRest == FirstBitIn(line, from, ((maxPos + 7) \div 8) * 8, 1 - bit)
         IN  IF inFirst >= 0 THEN inFirst
             ELSE IF inRest >= 0 THEN Min(inRest, maxPos)
             ELSE maxPos

\* faxG4FindB1B2: [b1, b2]
faxG4FindB1B2(refBuf, columns, a0, a0color) ==
    LET firstBit == IF a0 < 0 \/ refBuf[a0 + 1] = 1 THEN 1 ELSE 0
        b1 == findBit(refBuf, columns, a0 + 1, 1 - firstBit)
        flip == (firstBit = 1) = ~a0color
        b1b == IF flip THEN findBit(refBuf, columns, b1 + 1, firstBit) ELSE b1
        first2 == IF flip THEN 1 - firstBit ELSE firstBit
    IN  IF b1 >= columns \/ b1b >= columns THEN [b1 |-> columns, b2 |-> columns]
        ELSE [b1 |-> b1b, b2 |-> findBit(refBuf, columns, b1b + 1, first2)]

\* faxFillBits
faxFillBits(destBuf, columns, startPos, endPos) ==
    [i \in 1..Len(destBuf) |->
        IF i - 1 >= Max(startPos, 0) /\ i - 1 < Min(endPos, columns) THEN 0
        ELSE destBuf[i]]

\* the entries of one code length of the run table, from insOff up to
\* nextOff: the run of the entry that matches code, or -1
RECURSIVE RunEntry(_, _, _, _)
RunEntry(insArray, insOff, nextOff, code) ==
    IF insOff >= nextOff THEN -1
    ELSE IF insArray[insOff + 1] = code % 256
    THEN insArray[insOff + 2] + insArray[insOff + 3] * 256
    ELSE RunEntry(insArray, insOff + 3, nextOff, code)

\* faxGetRun: [run, pos]
RECURSIVE faxGetRunFrom(_, _, _, _, _, _)
faxGetRunFrom(srcBuf, pos, bitsize, insArray, code, insOff) ==
    IF pos >= bitsize THEN [run |-> -1, pos |-> pos]
    ELSE LET code1 == code * 2 + faxBit(srcBuf, pos)
             ins == insArray[insOff + 1]
             nextOff == insOff + 1 + ins * 3
             run == RunEntry(insArray, insOff + 1, nextOff, code1)
         IN  IF ins = 255 THEN [run |-> -1, pos |-> pos + 1]
             ELSE IF run >= 0 THEN [run |-> run, pos |-> pos + 1]
             ELSE faxGetRunFrom(srcBuf, pos + 1, bitsize, insArray, code1, nextOff)

faxGetRun(srcBuf, pos, bitsize, insArray) ==
    faxGetRunFrom(srcBuf, pos, bitsize, insArray, 0, 0)

\* the runs added up to the first below 64: [len, pos]
RECURSIVE faxRunLength(_, _, _, _, _)
faxRunLength(srcBuf, pos, bitsize, insArray, len) ==
    Let(faxGetRun(srcBuf, pos, bitsize, insArray), LAMBDA r :
        IF r.run < 64 THEN [len |-> len + r.run, pos |-> r.pos]
        ELSE faxRunLength(srcBuf, r.pos, bitsize, insArray, len + r.run))

faxRunTable(white) == IF white THEN faxWhiteRunIns ELSE faxBlackRunIns

\* faxG4GetRow: [pos, line], the bit position and the decoded line
RECURSIVE faxG4GetRowFrom(_, _, _, _, _, _, _, _)
\* the vertical modes, the code read up to pos
faxVertical(srcBuf, bitsize, pos, destBuf, refBuf, columns, a0, a0color, vDelta) ==
    LET a1 == faxG4FindB1B2(refBuf, columns, a0, a0color).b1 + vDelta
        dest == IF ~a0color THEN faxFillBits(destBuf, columns, a0, a1) ELSE destBuf
    IN  IF a1 >= columns \/ a0 >= a1 THEN [pos |-> pos, line |-> dest]
        ELSE faxG4GetRowFrom(srcBuf, bitsize, pos, dest, refBuf, columns, a1,
                             ~a0color)

\* the horizontal mode, the code read up to pos
faxHorizontal(srcBuf, bitsize, pos, destBuf, refBuf, columns, a0, a0color) ==
    Let(faxRunLength(srcBuf, pos, bitsize, faxRunTable(a0color), 0), LAMBDA r1 :
        LET runLen1 == IF a0 < 0 THEN r1.len + 1 ELSE r1.len
            a1 == a0 + runLen1
            dest1 == IF ~a0color THEN faxFillBits(destBuf, columns, a0, a1)
                     ELSE destBuf
        IN  IF runLen1 < 0 THEN [pos |-> r1.pos, line |-> destBuf]
            ELSE Let(faxRunLength(srcBuf, r1.pos, bitsize, faxRunTable(~a0color), 0),
                     LAMBDA r2 :
                     LET a2 == a1 + r2.len
                         dest2 == IF a0color THEN faxFillBits(dest1, columns, a1, a2)
                                  ELSE dest1
                     IN  IF r2.len < 0 THEN [pos |-> r2.pos, line |-> dest1]
                         ELSE IF a2 < columns
                         THEN faxG4GetRowFrom(srcBuf, bitsize, r2.pos, dest2, refBuf,
                                              columns, a2, a0color)
                         ELSE [pos |-> r2.pos, line |-> dest2]))

\* the codes that begin 000, read up to pos
faxLongCode(srcBuf, bitsize, pos, destBuf, refBuf, columns, a0, a0color) ==
    LET done(p) == [pos |-> p, line |-> destBuf]
        b2 == faxG4FindB1B2(refBuf, columns, a0, a0color).b2
        passed == IF ~a0color THEN faxFillBits(destBuf, columns, a0, b2) ELSE destBuf
    IN  IF pos >= bitsize THEN done(pos)
        ELSE IF faxBit(srcBuf, pos) = 1
        THEN IF b2 >= columns THEN [pos |-> pos + 1, line |-> passed]
             ELSE faxG4GetRowFrom(srcBuf, bitsize, pos + 1, passed, refBuf, columns,
                                  b2, a0color)
        ELSE IF pos + 1 >= bitsize THEN done(pos + 1)
        ELSE IF pos + 2 >= bitsize THEN done(pos + 2)
        ELSE IF faxBit(srcBuf, pos + 1) = 1
        THEN faxVertical(srcBuf, bitsize, pos + 3, destBuf, refBuf, columns, a0,
                         a0color, IF faxBit(srcBuf, pos + 2) = 1 THEN 2 ELSE -2)
        ELSE IF pos + 3 >= bitsize THEN done(pos + 3)
        ELSE IF faxBit(srcBuf, pos + 2) = 1
        THEN faxVertical(srcBuf, bitsize, pos + 4, destBuf, refBuf, columns, a0,
                         a0color, IF faxBit(srcBuf, pos + 3) = 1 THEN 3 ELSE -3)
        ELSE IF faxBit(srcBuf, pos + 3) = 1
        THEN faxG4GetRowFrom(srcBuf, bitsize, pos + 4 + 3, destBuf, refBuf, columns,
                             a0, a0color)
        ELSE done(pos + 4 + 5)

faxG4GetRowFrom(srcBuf, bitsize, pos, destBuf, refBuf, columns, a0, a0color) ==
    LET done(p) == [pos |-> p, line |-> destBuf]
    IN  IF pos >= bitsize THEN done(pos)
        ELSE IF faxBit(srcBuf, pos) = 1
        THEN faxVertical(srcBuf, bitsize, pos + 1, destBuf, refBuf, columns, a0,
                         a0color, 0)
        ELSE IF pos + 1 >= bitsize THEN done(pos + 1)
        ELSE IF pos + 2 >= bitsize THEN done(pos + 2)
        ELSE IF faxBit(srcBuf, pos + 1) = 1
        THEN faxVertical(srcBuf, bitsize, pos + 3, destBuf, refBuf, columns, a0,
                         a0color, IF faxBit(srcBuf, pos + 2) = 1 THEN 1 ELSE -1)
        ELSE IF faxBit(srcBuf, pos + 2) = 1
        THEN faxHorizontal(srcBuf, bitsize, pos + 3, destBuf, refBuf, columns, a0,
                           a0color)
        ELSE faxLongCode(srcBuf, bitsize, pos + 3, destBuf, refBuf, columns, a0,
                         a0color)

faxG4GetRow(srcBuf, bitsize, pos, destBuf, refBuf, columns) ==
    faxG4GetRowFrom(srcBuf, bitsize, pos, destBuf, refBuf, columns, -1, TRUE)

\* FaxG4Decode: the ending bit position
RECURSIVE FaxRows(_, _, _, _, _, _)
FaxRows(srcBuf, pos, width, height, refBuf, iRow) ==
    IF iRow >= height THEN pos
    ELSE Let(faxG4GetRow(srcBuf, Len(srcBuf) * 8, pos,
                         [i \in 1..Len(refBuf) |-> 1], refBuf, width), LAMBDA r :
             FaxRows(srcBuf, r.pos, width, height, r.line, iRow + 1))

FaxG4Decode(srcBuf, startingBitPos, width, height, pitch) ==
    IF pitch = 0 THEN startingBitPos
    ELSE FaxRows(srcBuf, startingBitPos, width, height,
                 [i \in 1..(pitch * 8) |-> 1], 0)

SetBitPos(s, bitPos) == [s EXCEPT !.byteIx = bitPos \div 8, !.bitIx = bitPos % 8]

\* StartDecodeMMR as far as it moves the stream
StartDecodeMMRStream(s, width, height) ==
    SetBitPos(s, FaxG4Decode(s.buf, BitPos(s), width, height,
                             ((width + 31) \div 32) * 4))

(***************************************************************************)
(* The bit stream under any sequence of its operations.  hist holds the    *)
(* stream after the last operation and the number of operations so far.    *)
(***************************************************************************)

MaxOps == 3
MaxMMRWidth == 9
MaxMMRHeight == 2

StreamBuffers ==
    {<<>>} \cup {<<a>> : a \in {b \in 0..255 : b % 3 = 0}}
    \cup {<<a, b>> : a \in {0, 1, 2, 16, 32, 48, 64, 96}, b \in {0, 1, 85, 255}}
    \cup {<<0, 0, 0, 0, 7>>}

StreamInputs == {[Options(buf) EXCEPT !.kind = "stream"] : buf \in StreamBuffers}

InitStream ==
    /\ input \in StreamInputs
    /\ created = FALSE
    /\ ctx = Nil
    /\ hist = <<>>
    /\ everErr = FALSE
    /\ cache = <<>>
    /\ heap = <<>>
    /\ stored = <<>>
    /\ touched = <<>>
    /\ cstep = <<>>

\* the offsets given to SetOffset and AddOffset: small ones, the length of
\* the buffer and beyond, and the largest uint32
StreamOffsets ==
    {U32Of(n) : n \in 0..(Len(input.SrcData) + 2)} \cup {U32Max, U32(65535, 65534)}

StreamDone(op, ok, s) ==
    /\ hist' = <<[op |-> op, err |-> ~ok, s |-> s,
                  n |-> IF hist = <<>> THEN 0 ELSE hist[1].n + 1]>>
    /\ everErr' = (everErr \/ ~ok)
    /\ UNCHANGED <<input, created, ctx, cache, heap, stored, touched, cstep>>

StreamOpen == hist # <<>> /\ hist[1].n < MaxOps

CallNewBitStream ==
    /\ hist = <<>>
    /\ StreamDone("NewBitStream", TRUE, NewBitStream(input.SrcData))

CallRead1Bit ==
    /\ StreamOpen
    /\ Let(Read1Bit(hist[1].s), LAMBDA r : StreamDone("Read1Bit", r.ok, r.s))

CallReadNBits ==
    /\ StreamOpen
    /\ \E count \in {1, 3, 8, 13, 32} :
          Let(ReadNBits(hist[1].s, count), LAMBDA r :
              StreamDone("ReadNBits", r.ok, r.s))

CallReadByte ==
    /\ StreamOpen
    /\ Let(ReadByte(hist[1].s), LAMBDA r : StreamDone("ReadByte", r.ok, r.s))

CallReadUint16 ==
    /\ StreamOpen
    /\ Let(ReadUint16(hist[1].s), LAMBDA r : StreamDone("ReadUint16", r.ok, r.s))

CallReadUint32 ==
    /\ StreamOpen
    /\ Let(ReadUint32(hist[1].s), LAMBDA r : StreamDone("ReadUint32", r.ok, r.s))

CallAlignByte ==
    /\ StreamOpen
    /\ StreamDone("AlignByte", TRUE, AlignByte(hist[1].s))

CallSetOffset ==
    /\ StreamOpen
    /\ \E offset \in StreamOffsets :
          StreamDone("SetOffset", TRUE, SetOffsetU32(hist[1].s, offset))

CallAddOffset ==
    /\ StreamOpen
    /\ \E delta \in StreamOffsets :
          StreamDone("AddOffset", TRUE, AddOffsetU32(hist[1].s, delta))

CallStartDecodeMMR ==
    /\ StreamOpen
    /\ \E width \in 1..MaxMMRWidth, height \in 1..MaxMMRHeight :
          StreamDone("StartDecodeMMR", TRUE,
                     StartDecodeMMRStream(hist[1].s, width, height))

NextStream ==
    \/ CallNewBitStream
    \/ CallRead1Bit
    \/ CallReadNBits
    \/ CallReadByte
    \/ CallReadUint16
    \/ CallReadUint32
    \/ CallAlignByte
    \/ CallSetOffset
    \/ CallAddOffset
    \/ CallStartDecodeMMR

SpecStream == InitStream /\ [][NextStream]_vars

StreamUsed == input.kind = "stream" /\ hist # <<>>

\* C30: after any sequence of bitstream operations (bit and byte reads,
\* align, set_offset, add_offset, and setting the bit position after an MMR
\* decode), the byte index is at most the buffer length and the bit index is
\* in 0..7.
C30_StreamIndicesInRange ==
    StreamUsed
    => /\ hist[1].s.byteIx >= 0
       /\ hist[1].s.byteIx <= Len(hist[1].s.buf)
       /\ hist[1].s.bitIx \in 0..7

\* an MMR decode that leaves the bit position past the last bit of the buffer
C30_Witness ==
    /\ StreamUsed
    /\ hist[1].op = "StartDecodeMMR"
    /\ BitPos(hist[1].s) > Len(hist[1].s.buf) * 8

\* an MMR decode that moves the stream and leaves it inside the buffer
MMRInsideBuffer ==
    /\ StreamUsed
    /\ hist[1].op = "StartDecodeMMR"
    /\ hist[1].s.byteIx > 0 /\ InBounds(hist[1].s) /\ hist[1].s.bitIx # 0

====
